---- MODULE Spec2Model ----
(***************************************************************************)
(* A model of the energy-management platform's analytic core:             *)
(*   src/database.py          the reading store and the anomaly store     *)
(*   src/anomaly_detection.py AnomalyDetector and its four detectors      *)
(*   src/data_processor.py    DataProcessor: aggregates, score, cache     *)
(*   src/app.py, src/mqtt_client.py, src/thingsboard_sync.py              *)
(*                            the paths that insert readings              *)
(*                                                                         *)
(* Units.  Time is in whole minutes (an hour is 60, a day 1440); a        *)
(* timestamp's date is ts \div 1440 and its hour of day (ts % 1440) \div  *)
(* 60.  Consumption is in hundredths of a kWh (5.0 kWh is 500), money in  *)
(* hundredths of a cent.  Percentages are in tenths of a percent.         *)
(* Floating point is modelled by exact rational comparison.               *)
(***************************************************************************)
EXTENDS Integers, Sequences, FiniteSets, Bags, TLC

VARIABLES
    store,          \* energy_data table: a bag of readings
    anomalyStore,   \* anomalies table: a bag of persisted anomalies
    now,            \* the wall clock, in minutes
    ret,            \* what the last analytic call returned
    runs,           \* number of calls so far that the model bounds
    added,          \* number of readings inserted so far
    cache,          \* DataProcessor._cache: cache key -> value
    lastCacheUpdate,\* DataProcessor._last_cache_update: cache key -> time
    thread,         \* the callers inside a DataProcessor method: their
                    \* position in its code and their local variables
    user            \* the GamificationManager's database: the user_profiles
                    \* row of default_user, its points_history rows and the
                    \* DatabaseManager's lock

vars ==
    <<store, anomalyStore, now, ret, runs, added, cache, lastCacheUpdate, thread, user>>
\* what the ingestion and the analytic calls leave alone
cacheVars == <<cache, lastCacheUpdate, thread, user>>

(***************************************************************************)
(* Bounds of the model.                                                    *)
(***************************************************************************)
MaxAdded == 1       \* readings inserted on top of the initial store
MaxRuns == 1        \* detect_anomalies invocations
MaxDrift == 1       \* minutes the clock may advance while detect_anomalies runs
MaxElapsed == 6     \* minutes that may pass while the cache is in use
MaxCalls == 3       \* calls of DataProcessor methods that may interleave
MaxRepeats == 2     \* detect_anomalies invocations in a row
MaxSubmits == 2     \* manual forms submitted in a row
MaxSyncs == 2       \* perform_sync calls in a row

(***************************************************************************)
(* Program constants (src/config.py), in the model's units.                *)
(***************************************************************************)
HIGH_USAGE_THRESHOLD == 500
ANOMALY_DETECTION_THRESHOLD == 2
ENERGY_COST_PER_KWH == 12

\* The clock at construction: day 10, 12:00.
Now0 == 10 * 1440 + 12 * 60

Hours(h) == h * 60
DateOf(ts) == ts \div 1440
HourOf(ts) == (ts % 1440) \div 60

Devices == {"d1", "d2"}

(***************************************************************************)
(* Bags of rows.  A DataFrame is a bag of rows: the detectors and the      *)
(* aggregates depend on the rows and their multiplicities, not on order.   *)
(***************************************************************************)
\* the sum of the naturals f[x] for x in S: the size of the bag that holds
\* f[x] copies of x
SumOver(f, S) == BagCardinality([x \in {y \in S : f[y] > 0} |-> f[x]])

NRows(b) == SumOver(b, DOMAIN b)
IsEmpty(b) == DOMAIN b = {}
Where(b, keep) == [r \in (DOMAIN b) \cap keep |-> b[r]]
OfDevice(b, d) == Where(b, {r \in DOMAIN b : r.device = d})
Since(b, t) == Where(b, {r \in DOMAIN b : r.ts >= t})
Before(b, t) == Where(b, {r \in DOMAIN b : r.ts < t})
DevicesIn(b) == {r.device : r \in DOMAIN b}
SumCons(b) == SumOver([r \in DOMAIN b |-> b[r] * r.consumption], DOMAIN b)
MaxTs(b) == CHOOSE t \in {r.ts : r \in DOMAIN b} :
                \A r \in DOMAIN b : r.ts <= t
MinTs(b) == CHOOSE t \in {r.ts : r \in DOMAIN b} :
                \A r \in DOMAIN b : r.ts >= t
\* the bag of f(r) over the rows r of b, multiplicities added up
MapBag(b, f(_)) ==
    LET img == {f(r) : r \in DOMAIN b}
    IN  [a \in img |->
            SumOver([r \in DOMAIN b |-> IF f(r) = a THEN b[r] ELSE 0], DOMAIN b)]

\* the sign of a / b - c / d for naturals a, c and positive b, d, by the
\* quotients and then the inverted remainders: no product is formed
RECURSIVE CmpFrac(_, _, _, _)
CmpFrac(a, b, c, d) ==
    IF a \div b # c \div d THEN (IF a \div b > c \div d THEN 1 ELSE -1)
    ELSE IF a % b = 0 /\ c % d = 0 THEN 0
    ELSE IF a % b = 0 THEN -1
    ELSE IF c % d = 0 THEN 1
    ELSE CmpFrac(d, c % d, b, a % b)

\* the sign of a * m - k * q for naturals a, q and positive m, k
MulCmp(a, m, k, q) == CmpFrac(a, k, q, m)

MulGT(a, m, k, q) == MulCmp(a, m, k, q) = 1

\* the greatest common divisor, of two naturals and of the values of f on S
RECURSIVE GCD(_, _)
GCD(a, b) == IF b = 0 THEN a ELSE GCD(b, a % b)

RECURSIVE GCDOver(_, _)
GCDOver(f, S) ==
    IF S = {} THEN 0
    ELSE LET x == CHOOSE y \in S : TRUE
         IN  GCD(f[x], GCDOver(f, S \ {x}))

Reading(d, c, t, s) == [device |-> d, consumption |-> c, ts |-> t, source |-> s]

(***************************************************************************)
(* DatabaseManager                                                         *)
(***************************************************************************)
\* add_energy_data: one INSERT
add_energy_data(st, d, c, t, s) == st (+) SetToBag({Reading(d, c, t, s)})

\* get_recent_energy_data(hours), the query evaluated at clock t
get_recent_energy_data(st, hours, t) == Since(st, t - Hours(hours))

(***************************************************************************)
(* AnomalyDetector (src/anomaly_detection.py)                              *)
(***************************************************************************)
Anomaly(ty, d, sev, t, v) ==
    [type |-> ty, device |-> d, severity |-> sev, ts |-> t, value |-> v]

Ok(b) == [raised |-> FALSE, anoms |-> b]
Raised == [raised |-> TRUE, anoms |-> EmptyBag]

\* the largest unit the consumptions of the rows dd are whole multiples of;
\* a z-score does not depend on the unit, and the squares below are taken in
\* this one
Unit(dd) ==
    LET g == GCDOver([r \in DOMAIN dd |-> r.consumption], DOMAIN dd)
    IN  IF g = 0 THEN 1 ELSE g

\* n * |x - mean| for the value x of a row of dd
ScaledDev(dd, x) ==
    LET d == (NRows(dd) * x - SumCons(dd)) \div Unit(dd)
    IN  IF d < 0 THEN -d ELSE d

\* n * (n - 1) * variance of the rows dd (n * sum of squares - square of
\* the sum): 0 iff std() is 0
ScaledVar(dd) ==
    LET u == Unit(dd)
        s == SumCons(dd) \div u
    IN  NRows(dd) * SumOver([r \in DOMAIN dd |->
                                dd[r] * (r.consumption \div u) * (r.consumption \div u)],
                            DOMAIN dd)
            - s * s

\* the sign of ScaledDev^2 * m - k * ScaledVar for positive m and k, without
\* the square
Dev2Cmp(dd, x, m, k) ==
    LET d == ScaledDev(dd, x)
    IN  IF d = 0 THEN (IF ScaledVar(dd) > 0 THEN -1 ELSE 0)
        ELSE CmpFrac(d * m, k, ScaledVar(dd), d)

\* z_score > threshold_multiplier, z = |x - mean| / std (sample std):
\* (n x - S)^2 (n - 1) > threshold^2 * n * ScaledVar
ZAboveThreshold(dd, x) ==
    Dev2Cmp(dd, x, NRows(dd) - 1,
            ANOMALY_DETECTION_THRESHOLD * ANOMALY_DETECTION_THRESHOLD * NRows(dd)) = 1

\* mutant: the severity test with >= for >
ZAboveHigh_AtLeast(dd, x) ==
    Dev2Cmp(dd, x, 4 * (NRows(dd) - 1),
            9 * ANOMALY_DETECTION_THRESHOLD * ANOMALY_DETECTION_THRESHOLD * NRows(dd)) >= 0

\* z_score > threshold_multiplier * 1.5
ZAboveHigh(dd, x) ==
    Dev2Cmp(dd, x, 4 * (NRows(dd) - 1),
            9 * ANOMALY_DETECTION_THRESHOLD * ANOMALY_DETECTION_THRESHOLD * NRows(dd)) = 1

StatSeverity(dd, x) == IF ZAboveHigh(dd, x) THEN "high" ELSE "medium"

\* mutant: twenty rows required of a device
StatDeviceAnoms_TwentyRows(data, recent, d) ==
    LET dd == OfDevice(data, d)
        rd == OfDevice(recent, d)
        flagged == Where(rd, {r \in DOMAIN rd : ZAboveThreshold(dd, r.consumption)})
        mk(r) == Anomaly("statistical_outlier", d,
                         StatSeverity(dd, r.consumption), r.ts, r.consumption)
    IN  IF NRows(dd) < 20 \/ IsEmpty(rd) THEN EmptyBag
        ELSE IF ScaledVar(dd) = 0 THEN EmptyBag
        ELSE MapBag(flagged, mk)

\* lines 70-100: the per-device loop of _detect_statistical_anomalies
StatDeviceAnoms(data, recent, d) ==
    LET dd == OfDevice(data, d)
        rd == OfDevice(recent, d)
        flagged == Where(rd, {r \in DOMAIN rd : ZAboveThreshold(dd, r.consumption)})
        mk(r) == Anomaly("statistical_outlier", d,
                         StatSeverity(dd, r.consumption), r.ts, r.consumption)
    IN  IF NRows(dd) < 10 \/ IsEmpty(rd) THEN EmptyBag
        ELSE IF ScaledVar(dd) = 0 THEN EmptyBag
        ELSE MapBag(flagged, mk)

_detect_statistical_anomalies(data, hours_back, t, fault) ==
    IF NRows(data) < 10 THEN Ok(EmptyBag)
    ELSE IF fault = "stat_filter" THEN Raised          \* line 65, outside the try
    ELSE IF fault = "stat_compute" THEN Ok(EmptyBag)   \* caught at line 102
    ELSE LET recent == Since(data, t - Hours(hours_back))
         IN  Ok(BagUnion({StatDeviceAnoms(data, recent, d) : d \in DevicesIn(data)}))

\* mutant: the severity test with >= for >
HighSeverity_AtLeast(c) == IF c >= HIGH_USAGE_THRESHOLD * 2 THEN "high" ELSE "medium"

HighSeverity(c) == IF c > HIGH_USAGE_THRESHOLD * 2 THEN "high" ELSE "medium"

_detect_high_usage(data, hours_back, t, fault) ==
    LET recent == Since(data, t - Hours(hours_back))
        flagged == Where(recent, {r \in DOMAIN recent :
                                    r.consumption > HIGH_USAGE_THRESHOLD})
        mk(r) == Anomaly("high_usage", r.device, HighSeverity(r.consumption),
                         r.ts, r.consumption)
    IN  IF fault = "high_filter" THEN Raised           \* line 113, no try at all
        ELSE IF fault = "high_compute" /\ ~IsEmpty(recent) THEN Raised  \* line 117
        ELSE Ok(MapBag(flagged, mk))

\* lines 141-156: devices that have not reported recently
InactiveAnoms(data, tI) ==
    LET inactive == {d \in DevicesIn(data) : MaxTs(OfDevice(data, d)) < tI - Hours(2)}
    IN  SetToBag({Anomaly("device_inactive", d, "medium", tI, 0) : d \in inactive})

\* mutant: six rows required
DropEvaluated_SixRows(data, recent, d) ==
    NRows(OfDevice(data, d)) >= 6 /\ ~IsEmpty(OfDevice(recent, d))

\* lines 163-164: the devices the drop check evaluates
DropEvaluated(data, recent, d) ==
    NRows(OfDevice(data, d)) >= 5 /\ ~IsEmpty(OfDevice(recent, d))

\* lines 158-180: sudden consumption drops
DropAnoms(data, recent, cutoff) ==
    LET hist(d) == Before(OfDevice(data, d), cutoff)
        rec(d) == OfDevice(recent, d)
        drop(d) ==
            /\ DropEvaluated(data, recent, d)
            /\ ~IsEmpty(hist(d))                        \* historical_avg is not NaN
            /\ 10 * SumCons(rec(d)) * NRows(hist(d))
                 < 3 * SumCons(hist(d)) * NRows(rec(d))   \* recent_avg < historical_avg * 0.3
            /\ SumCons(hist(d)) > 10 * NRows(hist(d))     \* historical_avg > 0.1
    IN  SetToBag({Anomaly("consumption_drop", d, "medium", MinTs(rec(d)), 0) :
                    d \in {x \in DevicesIn(recent) : drop(x)}})

_detect_device_anomalies(data, hours_back, tD, tI, fault) ==
    LET cutoff == tD - Hours(hours_back)
        recent == Since(data, cutoff)
        reached == \E d \in DevicesIn(recent) : DropEvaluated(data, recent, d)
    IN  IF fault = "dev_filter" THEN Ok(EmptyBag)      \* caught at line 182
        ELSE IF fault = "dev_compute" /\ reached
             THEN Ok(InactiveAnoms(data, tI))          \* line 167 raises, caught
        ELSE Ok(InactiveAnoms(data, tI) (+) DropAnoms(data, recent, cutoff))

\* mutant: a ratio of exactly 2.0 is flagged
PatternAnoms_FromTwo(recent, historical, tP) ==
    LET atHour(b, h) == Where(b, {r \in DOMAIN b : HourOf(r.ts) = h})
        hours == {HourOf(r.ts) : r \in DOMAIN recent}
                    \cap {HourOf(r.ts) : r \in DOMAIN historical}
        sr(h) == SumCons(atHour(recent, h))
        nr(h) == NRows(atHour(recent, h))
        sh(h) == SumCons(atHour(historical, h))
        nh(h) == NRows(atHour(historical, h))
        above(h, k) == sr(h) * nh(h) > k * sh(h) * nr(h)
        below10(h, k) == 10 * sr(h) * nh(h) < k * sh(h) * nr(h)
        dev(h) == sh(h) > 0 /\ (sr(h) * nh(h) >= 2 * sh(h) * nr(h) \/ below10(h, 5))
        sev(h) == IF above(h, 3) \/ below10(h, 3) THEN "high" ELSE "medium"
    IN  SetToBag({Anomaly("pattern_deviation", "system", sev(h),
                          DateOf(tP) * 1440 + h * 60, h) :
                    h \in {x \in hours : dev(x)}})

\* lines 203-228: hour-of-day means, recent against historical
PatternAnoms(recent, historical, tP) ==
    LET atHour(b, h) == Where(b, {r \in DOMAIN b : HourOf(r.ts) = h})
        hours == {HourOf(r.ts) : r \in DOMAIN recent}
                    \cap {HourOf(r.ts) : r \in DOMAIN historical}
        sr(h) == SumCons(atHour(recent, h))
        nr(h) == NRows(atHour(recent, h))
        sh(h) == SumCons(atHour(historical, h))
        nh(h) == NRows(atHour(historical, h))
        above(h, k) == sr(h) * nh(h) > k * sh(h) * nr(h)            \* ratio > k
        below10(h, k) == 10 * sr(h) * nh(h) < k * sh(h) * nr(h)     \* ratio < k/10
        dev(h) == sh(h) > 0 /\ (above(h, 2) \/ below10(h, 5))
        sev(h) == IF above(h, 3) \/ below10(h, 3) THEN "high" ELSE "medium"
    IN  SetToBag({Anomaly("pattern_deviation", "system", sev(h),
                          DateOf(tP) * 1440 + h * 60, h) :
                    h \in {x \in hours : dev(x)}})

_detect_pattern_anomalies(data, hours_back, tP, fault) ==
    LET cutoff == tP - Hours(hours_back)
        recent == Since(data, cutoff)
        historical == Before(data, cutoff)
    IN  IF NRows(data) < 24 THEN Ok(EmptyBag)
        ELSE IF fault \in {"pat_filter", "pat_compute"} THEN Ok(EmptyBag)  \* caught at line 230
        ELSE IF IsEmpty(recent) \/ IsEmpty(historical) THEN Ok(EmptyBag)
        ELSE Ok(PatternAnoms(recent, historical, tP))

\* detect_anomalies(hours_back); clk[k] is the k-th reading of the clock
detect_anomalies(st, hours_back, clk, fault) ==
    LET data == get_recent_energy_data(st, hours_back * 7, clk[0])
        s == _detect_statistical_anomalies(data, hours_back, clk[1], fault)
        h == _detect_high_usage(data, hours_back, clk[2], fault)
        d == _detect_device_anomalies(data, hours_back, clk[3], clk[4], fault)
        p == _detect_pattern_anomalies(data, hours_back, clk[5], fault)
    IN  IF IsEmpty(data) THEN Ok(EmptyBag)
        ELSE IF s.raised \/ h.raised \/ d.raised \/ p.raised THEN Raised
        ELSE Ok(s.anoms (+) h.anoms (+) d.anoms (+) p.anoms)

\* no call has returned yet
NoRet == [op |-> "none"]

\* an empty dict, an empty DataFrame
EmptyDict == [k \in {} |-> 0]

(***************************************************************************)
(* src/data_processor.py: DataProcessor.                                   *)
(* A dict is a record and an empty dict the function with no key; a        *)
(* DataFrame is a set of row records, or a function from the positional    *)
(* index to the row where the code reads the index.  A float that need not *)
(* be a whole number of the model's units is the pair <<num, den>> of an   *)
(* exact fraction; den = 0 is NaN.  A standard deviation is carried as its *)
(* square, the sample variance.                                            *)
(***************************************************************************)
Zero == <<0, 1>>
NaN == <<0, 0>>
Positive(q) == q[2] # 0 /\ q[1] > 0

Max(a, b) == IF a >= b THEN a ELSE b
Min(a, b) == IF a <= b THEN a ELSE b

\* round(a / b) for a >= 0 and b > 0, ties to the even neighbour as numpy
\* and Python 3 round them
RoundHalfEven(a, b) ==
    LET q == a \div b
        r == a % b
    IN  IF 2 * r > b \/ (2 * r = b /\ q % 2 = 1) THEN q + 1 ELSE q

\* floor(a * 10^k / c) by long division, within 32 bits while 10 * c fits
RECURSIVE LongDiv(_, _, _)
LongDiv(a, c, k) ==
    IF k = 0 THEN [q |-> a \div c, r |-> a % c]
    ELSE LET p == LongDiv(a, c, k - 1)
         IN  [q |-> 10 * p.q + (10 * p.r) \div c, r |-> (10 * p.r) % c]

\* floor(sqrt(x)) by bisection between lo and hi
RECURSIVE SqrtBetween(_, _, _)
SqrtBetween(x, lo, hi) ==
    IF lo >= hi THEN lo
    ELSE LET mid == (lo + hi + 1) \div 2
         IN  IF mid * mid <= x THEN SqrtBetween(x, mid, hi)
             ELSE SqrtBetween(x, lo, mid - 1)

\* DatabaseManager.get_energy_data_range: the rows whose date lies between
\* the two dates, both included; a failing query is caught and gives no row
get_energy_data_range(st, start_date, end_date, fault) ==
    IF fault = "store" THEN EmptyBag
    ELSE Where(st, {r \in DOMAIN st :
                      DateOf(r.ts) >= start_date /\ DateOf(r.ts) <= end_date})

\* data.groupby(data['timestamp'].dt.date)['consumption'].sum()
OnDate(data, d) == Where(data, {r \in DOMAIN data : DateOf(r.ts) = d})
DailyTotals(data) ==
    [d \in {DateOf(r.ts) : r \in DOMAIN data} |-> SumCons(OnDate(data, d))]
SumF(f) == SumOver(f, DOMAIN f)
SumSq(f) == SumOver([d \in DOMAIN f |-> f[d] * f[d]], DOMAIN f)
MinF(f) == CHOOSE v \in {f[d] : d \in DOMAIN f} : \A e \in DOMAIN f : f[e] >= v
MaxF(f) == CHOOSE v \in {f[d] : d \in DOMAIN f} : \A e \in DOMAIN f : f[e] <= v
\* the value of rank k (from 0) among the values of f
Kth(f, k) ==
    CHOOSE v \in {f[d] : d \in DOMAIN f} :
        /\ Cardinality({d \in DOMAIN f : f[d] < v}) <= k
        /\ k < Cardinality({d \in DOMAIN f : f[d] <= v})
Median(f) ==
    LET n == Cardinality(DOMAIN f)
    IN  IF n % 2 = 1 THEN <<Kth(f, n \div 2), 1>>
        ELSE <<Kth(f, n \div 2 - 1) + Kth(f, n \div 2), 2>>
\* Series.std(): the sample variance n*sum(x^2) - sum(x)^2 over n*(n-1),
\* NaN for a single value
Variance(f) ==
    LET n == Cardinality(DOMAIN f)
    IN  IF n < 2 THEN NaN
        ELSE <<n * SumSq(f) - SumF(f) * SumF(f), n * (n - 1)>>

\* the dict get_consumption_statistics returns for an empty range
ZeroStats ==
    [total_consumption |-> 0, average_daily |-> Zero, min_daily |-> 0,
     max_daily |-> 0, median_daily |-> Zero, std_deviation |-> Zero,
     total_cost |-> 0]

\* DataProcessor.get_consumption_statistics; fault "store" is a query the
\* store fails, "compute" a row on which the aggregation raises
get_consumption_statistics(st, days_back, t, fault) ==
    LET end_date == DateOf(t)
        data == get_energy_data_range(st, end_date - days_back, end_date, fault)
        daily_totals == DailyTotals(data)
        total_consumption == SumCons(data)
    IN  IF IsEmpty(data) THEN ZeroStats
        ELSE IF fault = "compute" THEN EmptyDict
        ELSE [total_consumption |-> total_consumption,
              average_daily |-> <<total_consumption, Cardinality(DOMAIN daily_totals)>>,
              min_daily |-> MinF(daily_totals),
              max_daily |-> MaxF(daily_totals),
              median_daily |-> Median(daily_totals),
              std_deviation |-> Variance(daily_totals),
              total_cost |-> total_consumption * ENERGY_COST_PER_KWH,
              days_with_data |-> Cardinality(DOMAIN daily_totals),
              average_hourly |-> <<total_consumption, NRows(data)>>]

\* (total_i / total * 100).round(1), in tenths of a percent; 0 / 0 is NaN
Percentage(part, total) ==
    IF total = 0 THEN [nan |-> TRUE, tenths |-> 0]
    ELSE [nan |-> FALSE, tenths |-> RoundHalfEven(part * 1000, total)]

\* one row of the breakdown: sum, mean (to 0.001 kWh) and count of the
\* device's readings, its share and its cost in cents
DeviceRow(data, d, total) ==
    LET dd == OfDevice(data, d)
    IN  [device_name |-> d,
         total_consumption |-> SumCons(dd),
         avg_consumption |-> RoundHalfEven(10 * SumCons(dd), NRows(dd)),
         reading_count |-> NRows(dd),
         percentage |-> Percentage(SumCons(dd), total),
         total_cost |-> RoundHalfEven(SumCons(dd) * ENERGY_COST_PER_KWH, 100)]

\* DataProcessor.get_device_consumption_breakdown
get_device_consumption_breakdown(st, days_back, t, fault) ==
    LET end_date == DateOf(t)
        data == get_energy_data_range(st, end_date - days_back, end_date, fault)
    IN  IF IsEmpty(data) \/ fault = "compute" THEN {}
        ELSE {DeviceRow(data, d, SumCons(data)) : d \in DevicesIn(data)}

\* DataProcessor.get_hourly_consumption_pattern: one row per hour of day
\* that has data, in the order of the hours; reset_index numbers the rows
\* from 0 and leaves the hour in a column
get_hourly_consumption_pattern(st, days_back, t, fault) ==
    LET end_date == DateOf(t)
        data == get_energy_data_range(st, end_date - days_back, end_date, fault)
        hs == {HourOf(r.ts) : r \in DOMAIN data}
        HourAt(i) == CHOOSE h \in hs : Cardinality({g \in hs : g < h}) = i
        AtHour(h) == Where(data, {r \in DOMAIN data : HourOf(r.ts) = h})
    IN  IF IsEmpty(data) \/ fault = "compute" THEN EmptyDict
        ELSE [i \in 0..(Cardinality(hs) - 1) |->
                [hour |-> HourAt(i),
                 avg_consumption |->
                    RoundHalfEven(10 * SumCons(AtHour(HourAt(i))), NRows(AtHour(HourAt(i)))),
                 data_points |-> NRows(AtHour(HourAt(i)))]]

\* the household reference of the usage factor, 25 kWh a day
typical_daily_usage == 2500

\* the four factors are in hundredths of a point, rounded down where the
\* float is not a whole number of them

\* mutant: the decay above the reference without its floor at 0
UsageLevelExact_NoFloor(stats) ==
    LET s == stats.average_daily[1]
        n == stats.average_daily[2]
    IN  IF s <= typical_daily_usage * n
        THEN <<10000 * typical_daily_usage * n - s * 5000, typical_daily_usage * n>>
        ELSE <<5000 * typical_daily_usage * n - (s - typical_daily_usage * n) * 5000,
               typical_daily_usage * n>>

\* usage_level as the exact fraction <<num, den>> of hundredths of a point,
\* from average_daily = <<sum, days>>
UsageLevelExact(stats) ==
    LET s == stats.average_daily[1]
        n == stats.average_daily[2]
    IN  IF s <= typical_daily_usage * n
        THEN <<10000 * typical_daily_usage * n - s * 5000, typical_daily_usage * n>>
        ELSE <<Max(0, 5000 * typical_daily_usage * n - (s - typical_daily_usage * n) * 5000),
               typical_daily_usage * n>>

\* usage_level in hundredths of a point
UsageLevel(stats) == UsageLevelExact(stats)[1] \div UsageLevelExact(stats)[2]

\* cv * 50 for cv = std_deviation / average_daily: cv squared is the
\* fraction a / c below, reduced before the division
CvTimes50(stats) ==
    LET s == stats.average_daily[1]
        n == stats.average_daily[2]
        u == GCD(stats.std_deviation[1], s * s)
        a == (stats.std_deviation[1] \div u) * n
        c == (n - 1) * ((s * s) \div u)
        g == GCD(a, c)
    IN  SqrtBetween(LongDiv(a \div g, 4 * (c \div g), 8).q, 0, 46340)

\* consistency
Consistency(stats) ==
    IF Positive(stats.std_deviation) /\ Positive(stats.average_daily)
    THEN Max(0, 10000 - CvTimes50(stats))
    ELSE 5000

\* mutant: the ratio of the two bands without its cap at 100
PeakManagement_NoCap(hourly_pattern) ==
    LET peak_hours == {i \in DOMAIN hourly_pattern : i >= 17 /\ i <= 21}
        off_peak_hours == {i \in DOMAIN hourly_pattern : i >= 23 \/ i <= 6}
        avg == [i \in DOMAIN hourly_pattern |-> hourly_pattern[i].avg_consumption]
        peak_sum == SumOver(avg, peak_hours)
        off_peak_sum == SumOver(avg, off_peak_hours)
    IN  IF DOMAIN hourly_pattern = {} THEN 5000
        ELSE IF peak_hours = {} \/ off_peak_hours = {} THEN 5000
        ELSE IF peak_sum > 0
        THEN LongDiv(off_peak_sum * Cardinality(peak_hours),
                     peak_sum * Cardinality(off_peak_hours), 4).q
        ELSE 5000

\* peak_management: hourly_pattern.index is the positional index of the row
PeakManagement(hourly_pattern) ==
    LET peak_hours == {i \in DOMAIN hourly_pattern : i >= 17 /\ i <= 21}
        off_peak_hours == {i \in DOMAIN hourly_pattern : i >= 23 \/ i <= 6}
        avg == [i \in DOMAIN hourly_pattern |-> hourly_pattern[i].avg_consumption]
        peak_sum == SumOver(avg, peak_hours)
        off_peak_sum == SumOver(avg, off_peak_hours)
    IN  IF DOMAIN hourly_pattern = {} THEN 5000
        ELSE IF peak_hours = {} \/ off_peak_hours = {} THEN 5000
        ELSE IF peak_sum > 0
        THEN Min(10000, LongDiv(off_peak_sum * Cardinality(peak_hours),
                                peak_sum * Cardinality(off_peak_hours), 4).q)
        ELSE 5000

\* data_completeness: stats.get('days_with_data', 0) * 24 of days_back * 24
DataCompleteness(stats, days_back) ==
    Min(10000, (stats.days_with_data * 24 * 10000) \div (days_back * 24))

\* the weights, in tenths
weights ==
    [usage_level |-> 4, consistency |-> 2, peak_management |-> 3,
     data_completeness |-> 1]

\* the weighted average, in thousandths of a point
WeightedScore(factors) ==
    SumOver([factor \in DOMAIN factors |-> factors[factor] * weights[factor]],
            DOMAIN factors)

\* mutant: the grade D from 40 points
Grade_DFromForty(weighted_score) ==
    IF weighted_score >= 90000 THEN "A+"
    ELSE IF weighted_score >= 80000 THEN "A"
    ELSE IF weighted_score >= 70000 THEN "B"
    ELSE IF weighted_score >= 60000 THEN "C"
    ELSE IF weighted_score >= 40000 THEN "D"
    ELSE "F"

Grade(weighted_score) ==
    IF weighted_score >= 90000 THEN "A+"
    ELSE IF weighted_score >= 80000 THEN "A"
    ELSE IF weighted_score >= 70000 THEN "B"
    ELSE IF weighted_score >= 60000 THEN "C"
    ELSE IF weighted_score >= 50000 THEN "D"
    ELSE "F"

\* mutant: every factor is weak below 50
Recommendations_AllBelowFifty(factors) ==
    LET recommendations ==
            (IF factors.usage_level < 5000
                THEN <<"Consider reducing overall energy consumption">> ELSE << >>)
         \o (IF factors.consistency < 5000
                THEN <<"Try to maintain more consistent daily usage patterns">> ELSE << >>)
         \o (IF factors.peak_management < 5000
                THEN <<"Shift energy usage away from peak hours (5-9 PM)">> ELSE << >>)
         \o (IF factors.data_completeness < 5000
                THEN <<"Improve data collection for better analysis">> ELSE << >>)
    IN  IF recommendations = << >>
        THEN <<"Great job! Keep maintaining your energy efficiency practices">>
        ELSE recommendations

Recommendations(factors) ==
    LET recommendations ==
            (IF factors.usage_level < 5000
                THEN <<"Consider reducing overall energy consumption">> ELSE << >>)
         \o (IF factors.consistency < 5000
                THEN <<"Try to maintain more consistent daily usage patterns">> ELSE << >>)
         \o (IF factors.peak_management < 5000
                THEN <<"Shift energy usage away from peak hours (5-9 PM)">> ELSE << >>)
         \o (IF factors.data_completeness < 8000
                THEN <<"Improve data collection for better analysis">> ELSE << >>)
    IN  IF recommendations = << >>
        THEN <<"Great job! Keep maintaining your energy efficiency practices">>
        ELSE recommendations

\* mutant: the result without a score graded as a failing score
NoScore_GradeF(recommendation) ==
    [score |-> 0, grade |-> "F", factors |-> EmptyDict,
     recommendations |-> <<recommendation>>]

\* the result without a score
NoScore(recommendation) ==
    [score |-> 0, grade |-> "N/A", factors |-> EmptyDict,
     recommendations |-> <<recommendation>>]

\* DataProcessor.calculate_energy_efficiency_score; the two retrievals may
\* fail independently.  The score and the factors are returned to one
\* decimal, the grade is taken from the score before rounding.
calculate_energy_efficiency_score(st, days_back, t, fault_stats, fault_hourly) ==
    LET stats == get_consumption_statistics(st, days_back, t, fault_stats)
    IN  IF DOMAIN stats = {} \/ stats.total_consumption = 0
        THEN NoScore("Start monitoring energy consumption to get your efficiency score")
        ELSE LET hourly_pattern ==
                     get_hourly_consumption_pattern(st, days_back, t, fault_hourly)
                 factors == [usage_level |-> UsageLevel(stats),
                             consistency |-> Consistency(stats),
                             peak_management |-> PeakManagement(hourly_pattern),
                             data_completeness |-> DataCompleteness(stats, days_back)]
                 weighted_score == WeightedScore(factors)
             IN  [score |-> RoundHalfEven(weighted_score, 100),
                  grade |-> Grade(weighted_score),
                  factors |-> [k \in DOMAIN factors |-> RoundHalfEven(factors[k], 10)],
                  recommendations |-> Recommendations(factors),
                  stats_summary |-> stats]

\* DataProcessor.get_weekly_consumption_pattern: one row per day of the week
\* that has data (day 0 of the model's calendar is a Monday)
WeekdayOf(ts) == DateOf(ts) % 7
get_weekly_consumption_pattern(st, weeks_back, t, fault) ==
    LET end_date == DateOf(t)
        data == get_energy_data_range(st, end_date - 7 * weeks_back, end_date, fault)
        OnWeekday(w) == Where(data, {r \in DOMAIN data : WeekdayOf(r.ts) = w})
    IN  IF IsEmpty(data) \/ fault = "compute" THEN {}
        ELSE {[weekday_num |-> w,
               avg_consumption |-> RoundHalfEven(10 * SumCons(OnWeekday(w)), NRows(OnWeekday(w))),
               total_consumption |-> SumCons(OnWeekday(w)),
               data_points |-> NRows(OnWeekday(w))] :
                    w \in {WeekdayOf(r.ts) : r \in DOMAIN data}}

Trend(ty, sev) == [type |-> ty, severity |-> sev]

\* the position of a date among the dates of the daily totals
DayIndex(daily_totals, d) == Cardinality({e \in DOMAIN daily_totals : e < d})

\* np.polyfit(x, daily_totals.values, 1)[0] as the fraction num / den of the
\* least-squares slope
Slope(daily_totals) ==
    LET n == Cardinality(DOMAIN daily_totals)
        D == DOMAIN daily_totals
        sx == SumOver([d \in D |-> DayIndex(daily_totals, d)], D)
        sxx == SumOver([d \in D |-> DayIndex(daily_totals, d) * DayIndex(daily_totals, d)], D)
        sxy == SumOver([d \in D |-> DayIndex(daily_totals, d) * daily_totals[d]], D)
    IN  [num |-> n * sxy - sx * SumF(daily_totals), den |-> n * sxx - sx * sx]

\* mutant: a rise is of medium severity below 0.5 kWh a day only
OverallTrend_HighFromHalf(daily_totals) ==
    LET slope == Slope(daily_totals)
    IN  IF slope.num > 10 * slope.den
        THEN Trend("increasing_consumption",
                   IF slope.num < 50 * slope.den THEN "medium" ELSE "high")
        ELSE IF slope.num < (-10) * slope.den
        THEN Trend("decreasing_consumption", "positive")
        ELSE Trend("stable_consumption", "low")

\* slope > 0.1, slope < -0.1 or neither; 0.1 kWh is 10 and 1 kWh is 100
OverallTrend(daily_totals) ==
    LET slope == Slope(daily_totals)
    IN  IF slope.num > 10 * slope.den
        THEN Trend("increasing_consumption",
                   IF slope.num < 100 * slope.den THEN "medium" ELSE "high")
        ELSE IF slope.num < (-10) * slope.den
        THEN Trend("decreasing_consumption", "positive")
        ELSE Trend("stable_consumption", "low")

\* the sign of volatility - k / 10 for volatility = std / mean, 0 for a mean
\* of 0: std / mean > k / 10 iff 100 * n * V > k * k * (n - 1) * sum^2
VolatilityCmp(daily_totals, k) ==
    LET n == Cardinality(DOMAIN daily_totals)
        s == SumF(daily_totals)
    IN  IF s = 0 THEN -1
        ELSE MulCmp(Variance(daily_totals)[1], 100 * n, k * k * (n - 1), s * s)

VolatilityTrend(daily_totals) ==
    IF VolatilityCmp(daily_totals, 3) = 1 THEN <<Trend("high_volatility", "medium")>>
    ELSE IF VolatilityCmp(daily_totals, 1) = -1 THEN <<Trend("low_volatility", "positive")>>
    ELSE << >>

\* weekend against weekday mean of the weekly pattern's avg_consumption; a
\* mean over no row is NaN and compares false
WeekendTrend(weekly_pattern) ==
    LET weekend == {r \in weekly_pattern : r.weekday_num \in {5, 6}}
        weekday == weekly_pattern \ weekend
        Avg(rows) == SumOver([r \in rows |-> r.avg_consumption], rows)
        we == Avg(weekend) * Cardinality(weekday)
        wd == Avg(weekday) * Cardinality(weekend)
    IN  IF weekend = {} \/ weekday = {} THEN << >>
        ELSE IF 10 * we > 12 * wd THEN <<Trend("weekend_spike", "medium")>>
        ELSE IF 10 * we < 8 * wd THEN <<Trend("weekend_drop", "low")>>
        ELSE << >>

\* the last seven daily totals against the earlier ones
RecentChange(daily_totals) ==
    LET n == Cardinality(DOMAIN daily_totals)
        last == {d \in DOMAIN daily_totals : DayIndex(daily_totals, d) >= n - 7}
        recent_week == SumOver(daily_totals, last)
        previous_weeks == SumOver(daily_totals, DOMAIN daily_totals \ last)
        diff == recent_week * (n - 7) - 7 * previous_weeks
        abs == IF diff < 0 THEN -diff ELSE diff
    IN  IF previous_weeks > 0 /\ 100 * abs > 15 * 7 * previous_weeks
        THEN <<Trend("recent_change",
                     IF 100 * abs > 30 * 7 * previous_weeks THEN "high" ELSE "medium")>>
        ELSE << >>

TrendSummary(trends) ==
    LET positive_trends ==
            Cardinality({i \in DOMAIN trends : trends[i].severity = "positive"})
        concerning_trends ==
            Cardinality({i \in DOMAIN trends : trends[i].severity \in {"medium", "high"}})
    IN  IF positive_trends > concerning_trends
        THEN "Overall energy usage patterns look good"
        ELSE IF concerning_trends > positive_trends
        THEN "Some concerning trends detected in energy usage"
        ELSE "Mixed trends in energy usage patterns"

\* mutant: six daily totals are taken for a week of data
EnoughDays_Six(daily_totals) == Cardinality(DOMAIN daily_totals) >= 6

\* not len(daily_totals) < 7: at least a week of data
EnoughDays(daily_totals) == ~(Cardinality(DOMAIN daily_totals) < 7)

\* DataProcessor.detect_usage_trends
detect_usage_trends(st, days_back, t, fault, fault_weekly) ==
    LET end_date == DateOf(t)
        start_date == end_date - days_back
        data == get_energy_data_range(st, start_date, end_date, fault)
        daily_totals == DailyTotals(data)
        n == Cardinality(DOMAIN daily_totals)
        trends ==
            <<OverallTrend(daily_totals)>> \o VolatilityTrend(daily_totals)
            \o (IF n >= 14
                THEN WeekendTrend(get_weekly_consumption_pattern(
                                      st, days_back \div 7, t, fault_weekly))
                     \o RecentChange(daily_totals)
                ELSE << >>)
    IN  IF IsEmpty(data)
        THEN [trends |-> << >>, summary |-> "No data available for trend analysis"]
        ELSE IF fault = "compute"
        THEN [trends |-> << >>, summary |-> "Error analyzing usage trends"]
        ELSE IF ~EnoughDays(daily_totals)
        THEN [trends |-> << >>, summary |-> "Insufficient data for trend analysis"]
        ELSE [trends |-> trends, summary |-> TrendSummary(trends),
              analysis_period |-> <<start_date, end_date>>, data_points |-> n]

\* the dict get_cost_analysis returns without consumption
ZeroCost ==
    [total_cost |-> 0, daily_average_cost |-> 0, projected_monthly_cost |-> 0,
     projected_annual_cost |-> 0, cost_breakdown |-> EmptyDict,
     savings_opportunities |-> {}]

\* the savings opportunities; potential_savings is a fraction of a cent.
\* total_cost is in hundredths of a cent, a row's total_cost in cents, an
\* hourly avg_consumption in thousandths of a kWh.
HighCostDevices(device_breakdown, stats) ==
    {[type |-> "high_cost_device", device_name |-> row.device_name,
      potential_savings |-> <<row.total_cost, 10>>] :
        row \in {r \in device_breakdown :
                    MulGT(r.total_cost * stats.days_with_data, 50000,
                          3044, stats.total_cost)}}

PeakHourUsage(hourly_pattern, stats) ==
    LET peak_hours == {i \in DOMAIN hourly_pattern : i >= 17 /\ i <= 21}
        peak_consumption ==
            SumOver([i \in peak_hours |-> hourly_pattern[i].avg_consumption], peak_hours)
        peak_cost == peak_consumption * ENERGY_COST_PER_KWH * stats.days_with_data
    IN  IF peak_hours # {} /\ peak_cost > 3 * stats.total_cost
        THEN {[type |-> "peak_hour_usage", potential_savings |-> <<2 * peak_cost, 10000>>]}
        ELSE {}

EfficiencyImprovement(stats) ==
    LET s == stats.average_daily[1]
        n == stats.average_daily[2]
    IN  IF s > typical_daily_usage * n
        THEN {[type |-> "efficiency_improvement",
               potential_savings |->
                  <<(s - typical_daily_usage * n) * ENERGY_COST_PER_KWH * 3044, 10000 * n>>]}
        ELSE {}

\* mutant: the total spread over the days of the look-back instead of the
\* days that have data
DailyAverageCost_OverPeriod(stats, days_back) ==
    RoundHalfEven(stats.total_cost, 100 * days_back)

\* round(total_cost / days_with_data, 2), in cents
DailyAverageCost(stats, days_back) ==
    IF stats.days_with_data > 0
    THEN RoundHalfEven(stats.total_cost, 100 * stats.days_with_data)
    ELSE 0

\* DataProcessor.get_cost_analysis, amounts rounded to the cent
get_cost_analysis(st, days_back, t, fault_stats, fault_breakdown, fault_hourly) ==
    LET stats == get_consumption_statistics(st, days_back, t, fault_stats)
    IN  IF DOMAIN stats = {} \/ stats.total_consumption = 0 THEN ZeroCost
        ELSE LET device_breakdown ==
                     get_device_consumption_breakdown(st, days_back, t, fault_breakdown)
                 hourly_pattern ==
                     get_hourly_consumption_pattern(st, days_back, t, fault_hourly)
                 days == stats.days_with_data
             IN  [total_cost |-> RoundHalfEven(stats.total_cost, 100),
                  daily_average_cost |-> DailyAverageCost(stats, days_back),
                  projected_monthly_cost |->
                      RoundHalfEven(stats.total_cost * 3044, 10000 * days),
                  projected_annual_cost |->
                      RoundHalfEven(stats.total_cost * 365, 100 * days),
                  cost_breakdown |->
                      [d \in {r.device_name : r \in device_breakdown} |->
                          LET row == CHOOSE r \in device_breakdown : r.device_name = d
                          IN  [cost |-> row.total_cost, percentage |-> row.percentage]],
                  savings_opportunities |->
                      HighCostDevices(device_breakdown, stats)
                      \cup PeakHourUsage(hourly_pattern, stats)
                      \cup EfficiencyImprovement(stats),
                  cost_per_kwh |-> ENERGY_COST_PER_KWH]

(***************************************************************************)
(* GamificationManager (src/gamification.py) on its own DatabaseManager.   *)
(***************************************************************************)
\* _initialize_achievements: the ids and points, in the order of the list
achievements ==
    <<[id |-> "first_login", points |-> 10],
      [id |-> "data_logger_7", points |-> 50],
      [id |-> "energy_saver_10", points |-> 100],
      [id |-> "early_bird", points |-> 25],
      [id |-> "night_owl", points |-> 75],
      [id |-> "recommendation_follower", points |-> 150],
      [id |-> "community_leader", points |-> 200],
      [id |-> "streak_master", points |-> 300]>>

\* the row init_database inserts for default_user, no points_history row,
\* the lock free and no call blocked
NewUser ==
    [total_points |-> 0, level |-> 1, achievements |-> << >>,
     points_history |-> << >>, locked |-> FALSE, blocked |-> FALSE]

\* while current_date in daily_data.index: streak += 1, a day back
RECURSIVE StreakBack(_, _)
StreakBack(days, current_date) ==
    IF current_date \in days THEN 1 + StreakBack(days, current_date - 1) ELSE 0

\* _get_current_streak: the days with a reading, counted back from today
_get_current_streak(st, t) ==
    LET recent_data == get_recent_energy_data(st, 24 * 30, t)
    IN  StreakBack({DateOf(r.ts) : r \in DOMAIN recent_data}, DateOf(t))

\* _check_energy_reduction(0.10): this week against the week before
_check_energy_reduction(st, t) ==
    LET today == DateOf(t)
        this_week_data == get_energy_data_range(st, today - 7, today, "none")
        last_week_data == get_energy_data_range(st, today - 14, today - 7, "none")
    IN  /\ ~IsEmpty(this_week_data) /\ ~IsEmpty(last_week_data)
        /\ SumCons(last_week_data) # 0
        /\ 10 * (SumCons(last_week_data) - SumCons(this_week_data))
                >= SumCons(last_week_data)

\* _check_achievement_condition; the ids it does not name are never met
_check_achievement_condition(id, st, t) ==
    CASE id = "first_login" -> TRUE
      [] id = "data_logger_7" -> _get_current_streak(st, t) >= 7
      [] id = "energy_saver_10" -> _check_energy_reduction(st, t)
      [] id = "streak_master" -> _get_current_streak(st, t) >= 30
      [] OTHER -> FALSE

\* the ids whose condition the store meets now
MetConditions(st, t) ==
    {achievements[i].id : i \in {j \in DOMAIN achievements :
                                    _check_achievement_condition(achievements[j].id, st, t)}}

\* DatabaseManager.update_user_points: the total and a points_history row
update_user_points(u, points, activity_type, description) ==
    [u EXCEPT !.total_points = @ + points,
              !.points_history = Append(@, [activity_type |-> activity_type,
                                           points |-> points,
                                           description |-> description])]

RECURSIVE add_points(_, _, _, _, _)
RECURSIVE CheckFrom(_, _, _, _)
RECURSIVE _award_achievement(_, _, _, _)
RECURSIVE _update_user_level(_, _)

\* _check_achievements from the i-th achievement on; earned_achievements is
\* the set read before the loop
CheckFrom(u, earned_achievements, i, met) ==
    IF i > Len(achievements) THEN u
    ELSE IF achievements[i].id \in earned_achievements \/ achievements[i].id \notin met
    THEN CheckFrom(u, earned_achievements, i + 1, met)
    ELSE CheckFrom(_award_achievement(u, achievements[i].id, achievements[i].points, met),
                   earned_achievements, i + 1, met)

_check_achievements(u, met) ==
    CheckFrom(u, {u.achievements[k] : k \in DOMAIN u.achievements}, 1, met)

\* the profile is read again, the id appended, and the points added
_award_achievement(u, achievement_id, points, met) ==
    add_points([u EXCEPT !.achievements = Append(@, achievement_id)],
               "achievement_unlocked", points, achievement_id, met)

\* every 100 points a level, 50 points for each level gained
_update_user_level(u, met) ==
    LET new_level == IF u.total_points \div 100 > 1 THEN u.total_points \div 100 ELSE 1
    IN  IF new_level > u.level
        THEN add_points([u EXCEPT !.level = new_level], "level_up",
                        (new_level - u.level) * 50, "level", met)
        ELSE u

\* GamificationManager.add_points; update_user_points takes the lock, and a
\* caller that finds it taken waits for ever
add_points(u, activity_type, points, description, met) ==
    IF u.locked THEN [u EXCEPT !.blocked = TRUE]
    ELSE _update_user_level(
            _check_achievements(
                update_user_points(u, points, activity_type, description), met),
            met)

(***************************************************************************)
(* The anomaly engine as a state machine: readings arrive over MQTT and    *)
(* the dashboard runs detect_anomalies.                                    *)
(***************************************************************************)

\* the callers of the DataProcessor: the session's script run and a second
\* triggering context (a background sync)
Threads == {"ui", "sync"}
Idle == [pc |-> "idle"]
NoThreads == [t \in Threads |-> Idle]

\* timestamps of the initial stores: two days and an hour back (inside the
\* 7 x 24 h baseline, before the 24 h window), and just outside the baseline
HistTs == Now0 - Hours(49)
OldTs == Now0 - Hours(24 * 7) - 1

\* d1: thirteen readings before the window and one of 3.0 kWh in it; with a
\* further reading of 5.0 kWh the mean is 2.0 kWh and the deviation 1.0 kWh
BaseStat ==
    [r \in {Reading("d1", 200, HistTs, "iot"), Reading("d1", 100, HistTs, "iot"),
            Reading("d1", 300, Now0 - Hours(1), "iot")}
        |-> IF r.consumption = 200 THEN 9 ELSE IF r.consumption = 100 THEN 4 ELSE 1]
BaseOld == SetToBag({Reading("d2", 300, OldTs, "iot")})
BasePattern == [r \in {Reading("d2", 100, HistTs, "iot")} |-> 24]
BaseThreshold ==
    SetToBag({Reading("d2", HIGH_USAGE_THRESHOLD, Now0 - Hours(1), "iot"),
              Reading("d2", 2 * HIGH_USAGE_THRESHOLD, Now0 - Hours(1), "iot")})
\* 23 readings of 2.5 kWh before the window, four of them of d1: one more
\* reading makes 24 rows in all and five of d1
BaseSparse ==
    [r \in {Reading("d1", 250, HistTs, "iot"), Reading("d2", 250, HistTs, "iot")}
        |-> IF r.device = "d1" THEN 4 ELSE 19]
\* a reading of d2 whose timestamp is the cutoff of a 24 h window taken now,
\* and eight readings of d1 before the window: one more leaves d1 with nine
BaseEdge ==
    [r \in {Reading("d2", 2 * HIGH_USAGE_THRESHOLD + 1, Now0 - Hours(24), "iot"),
            Reading("d1", 100, HistTs, "iot")}
        |-> IF r.device = "d1" THEN 8 ELSE 1]
InitStores ==
    {EmptyBag, BaseStat, BaseOld, BasePattern, BaseThreshold, BaseSparse, BaseEdge}

\* what a message may carry: a consumption around the thresholds, an hour
\* old, or an older reading
AddCons == {10, 100, 500, 501, 1000, 1001}
AddInputs == {<<c, Hours(1)>> : c \in AddCons} \cup {<<100, Hours(2)>>, <<100, Hours(3)>>}
HoursBackSet == {24}
Faults == {"stat_filter", "stat_compute", "high_filter", "high_compute",
           "dev_filter", "dev_compute", "pat_filter", "pat_compute"}

InitAnomaly ==
    /\ store \in InitStores
    /\ anomalyStore = EmptyBag
    /\ now = Now0
    /\ ret = NoRet
    /\ runs = 0
    /\ added = 0
    /\ cache = EmptyDict
    /\ lastCacheUpdate = EmptyDict
    /\ thread = NoThreads
    /\ user = NewUser

\* MQTTClient._handle_consumption_message: a consumption message with a
\* value and a timestamp is stored; a value of 0 is falsy and is dropped
_handle_consumption_message(d, c, t) ==
    /\ added < MaxAdded
    /\ store' = IF c = 0 THEN store ELSE add_energy_data(store, d, c, t, "iot")
    /\ added' = added + 1
    /\ ret' = NoRet
    /\ UNCHANGED <<anomalyStore, now, runs, cacheVars>>

MqttMessage ==
    \E d \in Devices, in \in AddInputs :
        _handle_consumption_message(d, in[1], now - in[2])

\* the clock read k of an invocation during which the clock ticks over, by one
\* minute, before read j (j = 6: it does not)
ClockReads(j) == [k \in 0..5 |-> IF k >= j THEN now + 1 ELSE now]

\* mutant: an anomaly already in the store is not stored again
Detect_Deduplicating(hours_back, fault, j) ==
    /\ j < 6 => now - Now0 < MaxDrift
    /\ LET clk == ClockReads(j)
           r == detect_anomalies(store, hours_back, clk, fault)
       IN  /\ ret' = [op |-> "detect_anomalies", hours_back |-> hours_back,
                      fault |-> fault, clk |-> clk,
                      raised |-> r.raised, value |-> r.anoms]
           /\ anomalyStore' = SetToBag(BagToSet(anomalyStore (+) r.anoms))
           /\ now' = clk[5]
    /\ runs' = runs + 1
    /\ UNCHANGED <<store, added, cacheVars>>

\* AnomalyDetector.detect_anomalies, with the persisting loop of lines 45-52
Detect(hours_back, fault, j) ==
    /\ j < 6 => now - Now0 < MaxDrift
    /\ LET clk == ClockReads(j)
           r == detect_anomalies(store, hours_back, clk, fault)
       IN  /\ ret' = [op |-> "detect_anomalies", hours_back |-> hours_back,
                      fault |-> fault, clk |-> clk,
                      raised |-> r.raised, value |-> r.anoms]
           /\ anomalyStore' = anomalyStore (+) r.anoms
           /\ now' = clk[5]
    /\ runs' = runs + 1
    /\ UNCHANGED <<store, added, cacheVars>>

DetectRun(hours_back, fault, j) ==
    /\ runs < MaxRuns
    /\ Detect(hours_back, fault, j)

\* a run in which no detector fails; the clock may tick during it
DetectAnomalies ==
    \E hours_back \in HoursBackSet, j \in 0..6 : DetectRun(hours_back, "none", j)

\* a run in which one detector hits an exception
DetectAnomaliesFault ==
    \E hours_back \in HoursBackSet, fault \in Faults : DetectRun(hours_back, fault, 6)

NextAnomaly == MqttMessage \/ DetectAnomalies

SpecAnomaly == InitAnomaly /\ [][NextAnomaly]_vars

NextFault == MqttMessage \/ DetectAnomaliesFault

SpecFault == InitAnomaly /\ [][NextFault]_vars

\* detect_anomalies called again and again, as the anomalies page does on
\* each rerun; the clock may tick over between the high-usage and the device
\* detector
DetectRepeatedly ==
    \E hours_back \in HoursBackSet, j \in {3, 6} :
        /\ runs < MaxRepeats
        /\ Detect(hours_back, "none", j)

NextRepeat == MqttMessage \/ DetectRepeatedly

SpecRepeat == InitAnomaly /\ [][NextRepeat]_vars

(***************************************************************************)
(* The analytic calls as a state machine: readings arrive by manual entry  *)
(* and by the dashboard's ThingsBoard sync, and the pages call the         *)
(* DataProcessor and the AnomalyDetector.  A retrieval may fail: "store"   *)
(* is a query the store fails (get_energy_data_range catches it and gives  *)
(* no row), "compute" a row on which the aggregation raises.               *)
(***************************************************************************)
RetrievalFaults == {"none", "store", "compute"}

\* DataProcessor.clear_cache, run to completion
clear_cache ==
    /\ cache' = EmptyDict
    /\ lastCacheUpdate' = EmptyDict

\* ThingsBoardSyncService.sync_to_local_database: an entry is skipped when
\* the last hour holds a reading of its device less than 60 s away from it
RECURSIVE sync_to_local_database(_, _, _)
sync_to_local_database(st, data, t) ==
    IF data = << >> THEN [store |-> st, synced_count |-> 0]
    ELSE LET entry == Head(data)
             existing_data == get_recent_energy_data(st, 1, t)
             duplicate == \E row \in DOMAIN existing_data :
                              row.device = entry.device /\ row.ts = entry.ts
             st1 == IF duplicate THEN st
                    ELSE add_energy_data(st, entry.device, entry.consumption,
                                         entry.ts, "thingsboard")
             rest == sync_to_local_database(st1, Tail(data), t)
         IN  [store |-> rest.store,
              synced_count |-> rest.synced_count + (IF duplicate THEN 0 ELSE 1)]

\* ThingsBoardSyncService.perform_sync: nothing is fetched without a
\* connection
perform_sync(st, connected, telemetry_data, t) ==
    IF ~connected THEN [success |-> FALSE, store |-> st, synced_count |-> 0]
    ELSE [success |-> TRUE,
          store |-> sync_to_local_database(st, telemetry_data, t).store,
          synced_count |-> sync_to_local_database(st, telemetry_data, t).synced_count]

\* what ThingsBoard may hold for the last two hours: nothing, or one entry
\* whose value may be 0 (float(entry.get('value', 0)))
SyncCons == {0, 100}
TelemetryBatches ==
    {<< >>} \cup {<<Reading(d, c, now - Hours(1), "thingsboard")>> :
                     d \in Devices, c \in SyncCons}

\* what the manual form may carry: a positive consumption and how long ago
\* it was read
ManualCons == {100, 3000}
ManualAges == {0}

\* app.py manual_input_page: a submitted form with a name and a positive
\* consumption is stored, the cache cleared and 10 points are added
SubmitForm(d, c, age) ==
    /\ store' = add_energy_data(store, d, c, now - age, "manual")
    /\ clear_cache
    /\ \E met \in {MetConditions(store', now)} :
            user' = add_points(user, "manual_input", 10, "", met)
    /\ added' = added + 1
    /\ ret' = NoRet
    /\ UNCHANGED <<anomalyStore, now, runs, thread>>

ManualEntry ==
    \E d \in Devices, c \in ManualCons, age \in ManualAges :
        added < MaxAdded /\ SubmitForm(d, c, age)

\* app.py dashboard_page, "Sync ThingsBoard": the cache is cleared after a
\* successful sync
DashboardSync ==
    \E connected \in BOOLEAN, telemetry_data \in TelemetryBatches :
        LET result == perform_sync(store, connected, telemetry_data, now)
        IN  /\ added < MaxAdded
            /\ store' = result.store
            /\ IF result.success THEN clear_cache
               ELSE UNCHANGED <<cache, lastCacheUpdate>>
            /\ added' = added + 1
            /\ ret' = NoRet
            /\ UNCHANGED <<anomalyStore, now, runs, thread, user>>

\* the default look-back of each call
StatsDays == 30
TrendDays == 60

\* mutant: an analytic call that writes the rows back without duplicates
Analytic_WritesBack(op, faults, value) ==
    /\ ret = NoRet
    /\ ret' = [op |-> op, faults |-> faults, value |-> value]
    /\ store' = SetToBag(BagToSet(store))
    /\ UNCHANGED <<anomalyStore, now, runs, added, cacheVars>>

\* an analytic call and what it returns.  The result depends on the store
\* and the clock only, so one call is taken per state of the store.
Analytic(op, faults, value) ==
    /\ ret = NoRet
    /\ ret' = [op |-> op, faults |-> faults, value |-> value]
    /\ UNCHANGED <<store, anomalyStore, now, runs, added, cacheVars>>

ConsumptionStatistics ==
    \E fault \in RetrievalFaults :
        Analytic("get_consumption_statistics", <<fault>>,
                 get_consumption_statistics(store, StatsDays, now, fault))

DeviceConsumptionBreakdown ==
    \E fault \in RetrievalFaults :
        Analytic("get_device_consumption_breakdown", <<fault>>,
                 get_device_consumption_breakdown(store, StatsDays, now, fault))

\* at most one of the retrievals of a call fails
OneFault(n) ==
    {f \in [1..n -> RetrievalFaults] : Cardinality({i \in 1..n : f[i] # "none"}) <= 1}

EfficiencyScore ==
    \E f \in OneFault(2) :
        Analytic("calculate_energy_efficiency_score", f,
                 calculate_energy_efficiency_score(store, StatsDays, now, f[1], f[2]))

CostAnalysis ==
    \E f \in OneFault(3) :
        Analytic("get_cost_analysis", f,
                 get_cost_analysis(store, StatsDays, now, f[1], f[2], f[3]))

UsageTrends ==
    \E f \in OneFault(2) :
        Analytic("detect_usage_trends", f,
                 detect_usage_trends(store, TrendDays, now, f[1], f[2]))

\* the stores the analytic calls start from: a week of daily readings, a
\* day with a reading in every hour, and six devices with equal readings
BaseWeek ==
    SetToBag({Reading("d1", 100 * (i + 1), Now0 - Hours(24 * i), "iot") : i \in 1..7})
BaseHourly ==
    SetToBag({Reading("d1", IF h >= 17 /\ h <= 21 THEN 200 ELSE 100,
                      Now0 - Hours(12 + 24) + Hours(h), "iot") : h \in 0..23})
BaseSix ==
    SetToBag({Reading(d, 100, Now0 - Hours(1), "iot") :
                 d \in {"d1", "d2", "d3", "d4", "d5", "d6"}})
\* ten days up to today rising by 0.5 kWh a day, and the first six of them
BaseRising ==
    SetToBag({Reading("d1", 100 + 50 * i, Now0 - Hours(24 * (9 - i)), "iot") : i \in 0..9})
BaseShort ==
    SetToBag({Reading("d1", 100 + 50 * i, Now0 - Hours(24 * (9 - i)), "iot") : i \in 0..5})
\* yesterday, a reading in every hour: 0.64 kWh in the off-peak hours, 0.51
\* in the peak hours and 0.48 in the others, 12.95 kWh in all, which puts
\* the weighted score just below 70
BaseBoundary ==
    SetToBag({Reading("d1", IF h >= 17 /\ h <= 21 THEN 51
                            ELSE IF h >= 23 \/ h <= 6 THEN 64 ELSE 48,
                      Now0 - Hours(12 + 24) + Hours(h), "iot") : h \in 0..23})
\* yesterday, readings in the off-peak hours 0..6 (1 kWh) and in the peak
\* hours 17..21 (4 kWh) only
BaseEvening ==
    SetToBag({Reading("d1", IF h >= 17 THEN 400 ELSE 100,
                      Now0 - Hours(12 + 24) + Hours(h), "iot") :
                 h \in (0..6) \cup (17..21)})
\* the twenty-three days before today with 2 kWh each
BaseLong ==
    SetToBag({Reading("d1", 200, Now0 - Hours(24 * i), "iot") : i \in 1..23})
\* the fourteen days before today with 2 kWh a reading: one reading on a
\* weekday, two on a Saturday or Sunday
BaseWeekend ==
    [r \in {Reading("d1", 200, Now0 - Hours(24 * i), "iot") : i \in 1..14}
        |-> IF WeekdayOf(r.ts) \in {5, 6} THEN 2 ELSE 1]
ProcessorStores ==
    {EmptyBag, BaseStat, BaseOld, BaseWeek, BaseHourly, BaseSix, BaseRising,
     BaseShort, BaseBoundary, BaseEvening, BaseLong}

InitProcessor ==
    /\ store \in ProcessorStores
    /\ anomalyStore = EmptyBag
    /\ now = Now0
    /\ ret = NoRet
    /\ runs = 0
    /\ added = 0
    /\ cache = EmptyDict
    /\ lastCacheUpdate = EmptyDict
    /\ thread = NoThreads
    /\ user = NewUser

\* a run of detect_anomalies during which the clock does not tick over
DetectAnomaliesNow ==
    \E hours_back \in HoursBackSet : DetectRun(hours_back, "none", 6)

NextProcessor ==
    \/ ManualEntry
    \/ DashboardSync
    \/ ConsumptionStatistics
    \/ DeviceConsumptionBreakdown
    \/ EfficiencyScore
    \/ CostAnalysis
    \/ UsageTrends
    \/ DetectAnomaliesNow

SpecProcessor == InitProcessor /\ [][NextProcessor]_vars

\* the trends page alone, over stores of ten days, two weeks and more
InitWeekly ==
    /\ store \in {BaseWeekend, BaseLong, BaseRising}
    /\ anomalyStore = EmptyBag
    /\ now = Now0
    /\ ret = NoRet
    /\ runs = 0
    /\ added = 0
    /\ cache = EmptyDict
    /\ lastCacheUpdate = EmptyDict
    /\ thread = NoThreads
    /\ user = NewUser

NextWeekly == ManualEntry \/ DashboardSync \/ UsageTrends

SpecWeekly == InitWeekly /\ [][NextWeekly]_vars

(***************************************************************************)
(* The usage factor as a function of the average daily consumption: two    *)
(* statistics that differ in average_daily only are scored side by side.   *)
(***************************************************************************)
MaxDays == 3

\* totals, in hundredths of a kWh, around the reference (25 kWh a day) and
\* around the floor (50 kWh a day) for one to MaxDays days with data
UsageSums ==
    {2400, 2500, 2501, 2600, 3750, 4999, 5000, 5001, 6000, 7500, 7501, 7503,
     7504, 9999, 10000, 10001, 14999, 15000, 15001, 20000}
AverageInputs == {<<s, n>> : s \in UsageSums, n \in 1..MaxDays}

\* the statistics of BaseStat with another average
StatsWith(average_daily) ==
    [get_consumption_statistics(BaseStat, StatsDays, Now0, "none")
        EXCEPT !.average_daily = average_daily]

InitUsage ==
    /\ store = BaseStat
    /\ anomalyStore = EmptyBag
    /\ now = Now0
    /\ ret = NoRet
    /\ runs = 0
    /\ added = 0
    /\ cache = EmptyDict
    /\ lastCacheUpdate = EmptyDict
    /\ thread = NoThreads
    /\ user = NewUser

\* lines 270-275 applied to two averages a < b
UsageLevelOfTwo ==
    \E a, b \in AverageInputs :
        /\ ret = NoRet
        /\ a[1] * b[2] < b[1] * a[2]
        /\ ret' = [op |-> "usage_level", a |-> a, b |-> b,
                   level_a |-> UsageLevelExact(StatsWith(a)),
                   level_b |-> UsageLevelExact(StatsWith(b))]
        /\ UNCHANGED <<store, anomalyStore, now, runs, added, cacheVars, thread>>

NextUsage == UsageLevelOfTwo

SpecUsage == InitUsage /\ [][NextUsage]_vars

(***************************************************************************)
(* The cache of the DataProcessor (data_processor.py lines 14-16, 18-71,   *)
(* 559-569).  A cache key is the pair of the metric and its date (0 for    *)
(* the current consumption); the timeout is in minutes.                    *)
(***************************************************************************)
_cache_timeout == 5

CurrentKey == <<"current_consumption", 0>>
DailyKey(date) == <<"daily_total", date>>

\* d[key] = value
Put(d, key, value) == [k \in DOMAIN d \cup {key} |-> IF k = key THEN value ELSE d[k]]

\* mutant: an entry is still valid when exactly the timeout has elapsed
_is_cache_valid_AtMost(c, l, cache_key, t) ==
    /\ cache_key \in DOMAIN c
    /\ cache_key \in DOMAIN l
    /\ t - l[cache_key] <= _cache_timeout

\* DataProcessor._is_cache_valid
_is_cache_valid(c, l, cache_key, t) ==
    /\ cache_key \in DOMAIN c
    /\ cache_key \in DOMAIN l
    /\ t - l[cache_key] < _cache_timeout

\* lines 56-61: the total of the readings of the date
DailyTotal(st, date) ==
    LET data == get_energy_data_range(st, date, date, "none")
    IN  IF IsEmpty(data) THEN 0 ELSE SumCons(data)

\* lines 27-33: the consumption of the first row of the last hour, newest
\* first; rows of one timestamp come in either order
CurrentConsumptions(st, t) ==
    LET recent_data == get_recent_energy_data(st, 1, t)
    IN  IF IsEmpty(recent_data) THEN {0}
        ELSE {r.consumption : r \in {x \in DOMAIN recent_data : x.ts = MaxTs(recent_data)}}

\* what a cached accessor computes from the store for its key
Fresh(st, key, t) ==
    IF key = CurrentKey THEN CurrentConsumptions(st, t) ELSE {DailyTotal(st, key[2])}

\* a cached accessor run to completion: the cached value while it is valid,
\* else a fresh one, written to the cache with the time of the write
Accessor(op, key) ==
    /\ IF _is_cache_valid(cache, lastCacheUpdate, key, now)
       THEN /\ ret' = [op |-> op, key |-> key, cached |-> TRUE,
                       fallback |-> FALSE, value |-> cache[key]]
            /\ UNCHANGED <<cache, lastCacheUpdate>>
       ELSE \E value \in Fresh(store, key, now) :
            /\ ret' = [op |-> op, key |-> key, cached |-> FALSE,
                       fallback |-> FALSE, value |-> value]
            /\ cache' = Put(cache, key, value)
            /\ lastCacheUpdate' = Put(lastCacheUpdate, key, now)
    /\ UNCHANGED <<store, anomalyStore, now, runs, added, thread, user>>

\* DataProcessor.get_daily_total() for today
GetDailyTotal == Accessor("get_daily_total", DailyKey(DateOf(now)))

\* DataProcessor.get_current_consumption()
GetCurrentConsumption == Accessor("get_current_consumption", CurrentKey)

\* app.py hardware_simulator_page, "Sync Now": the sync without clear_cache
SimulatorSync ==
    \E connected \in BOOLEAN, telemetry_data \in TelemetryBatches :
        /\ added < MaxAdded
        /\ store' = perform_sync(store, connected, telemetry_data, now).store
        /\ added' = added + 1
        /\ ret' = NoRet
        /\ UNCHANGED <<anomalyStore, now, runs, cacheVars>>

\* a consumption message without a timestamp is stored with the time of
\* its arrival (line 130)
MqttMessageNow ==
    \E d \in Devices : _handle_consumption_message(d, 100, now)

\* a minute passes
Tick ==
    /\ now - Now0 < MaxElapsed
    /\ now' = now + 1
    /\ UNCHANGED <<store, anomalyStore, ret, runs, added, cacheVars>>

CacheStores == {EmptyBag, BaseThreshold}

InitCache ==
    /\ store \in CacheStores
    /\ anomalyStore = EmptyBag
    /\ now = Now0
    /\ ret = NoRet
    /\ runs = 0
    /\ added = 0
    /\ cache = EmptyDict
    /\ lastCacheUpdate = EmptyDict
    /\ thread = NoThreads
    /\ user = NewUser

NextCache ==
    \/ ManualEntry
    \/ DashboardSync
    \/ SimulatorSync
    \/ MqttMessageNow
    \/ GetDailyTotal
    \/ GetCurrentConsumption
    \/ Tick

SpecCache == InitCache /\ [][NextCache]_vars

(***************************************************************************)
(* The same methods step by step, for callers that share the DataProcessor *)
(* (the spec's UI interaction and background sync).  The code takes no     *)
(* lock; a step is one access to one of the two dicts, which CPython makes *)
(* atomic.  A KeyError is caught by the accessor's except clause, which    *)
(* returns 0.0.                                                            *)
(***************************************************************************)
At(t, pc) == thread[t].pc = pc
Goto(t, pc) == thread' = [thread EXCEPT ![t].pc = pc]
Unshared == <<store, anomalyStore, now, added, user>>

\* the caller t enters get_daily_total(), get_current_consumption() or
\* clear_cache()
Call(t) ==
    /\ At(t, "idle")
    /\ runs < MaxCalls
    /\ runs' = runs + 1
    /\ \E op \in {"get_daily_total", "get_current_consumption", "clear_cache"} :
          thread' = [thread EXCEPT ![t] =
                        IF op = "clear_cache" THEN [pc |-> "clear_cache", op |-> op]
                        ELSE [pc |-> "in_cache", op |-> op,
                              key |-> IF op = "get_daily_total"
                                      THEN DailyKey(DateOf(now)) ELSE CurrentKey]]
    /\ UNCHANGED <<Unshared, ret, cache, lastCacheUpdate>>

\* the accessor of t returns
Return(t, cached, fallback, value) ==
    /\ ret' = [op |-> thread[t].op, key |-> thread[t].key, cached |-> cached,
               fallback |-> fallback, value |-> value]
    /\ thread' = [thread EXCEPT ![t] = Idle]

\* line 561, cache_key not in self._cache
InCache(t) ==
    /\ At(t, "in_cache")
    /\ Goto(t, IF thread[t].key \in DOMAIN cache THEN "in_update" ELSE "query")
    /\ UNCHANGED <<Unshared, runs, ret, cache, lastCacheUpdate>>

\* line 561, cache_key not in self._last_cache_update
InUpdate(t) ==
    /\ At(t, "in_update")
    /\ Goto(t, IF thread[t].key \in DOMAIN lastCacheUpdate THEN "read_update" ELSE "query")
    /\ UNCHANGED <<Unshared, runs, ret, cache, lastCacheUpdate>>

\* line 564, self._last_cache_update[cache_key]
ReadUpdate(t) ==
    /\ At(t, "read_update")
    /\ IF thread[t].key \notin DOMAIN lastCacheUpdate
       THEN Return(t, FALSE, TRUE, 0)
       ELSE /\ Goto(t, IF now - lastCacheUpdate[thread[t].key] < _cache_timeout
                       THEN "read_cache" ELSE "query")
            /\ UNCHANGED ret
    /\ UNCHANGED <<Unshared, runs, cache, lastCacheUpdate>>

\* lines 24 and 53, return self._cache[cache_key]
ReadCache(t) ==
    /\ At(t, "read_cache")
    /\ IF thread[t].key \notin DOMAIN cache
       THEN Return(t, FALSE, TRUE, 0)
       ELSE Return(t, TRUE, FALSE, cache[thread[t].key])
    /\ UNCHANGED <<Unshared, runs, cache, lastCacheUpdate>>

\* lines 27-33 and 56-61, the query and the value computed from it
Query(t) ==
    /\ At(t, "query")
    /\ \E value \in Fresh(store, thread[t].key, now) :
          thread' = [thread EXCEPT ![t] =
                        [pc |-> "write_cache", op |-> thread[t].op,
                         key |-> thread[t].key, value |-> value]]
    /\ UNCHANGED <<Unshared, runs, ret, cache, lastCacheUpdate>>

\* lines 36 and 64, self._cache[cache_key] = ...
WriteCache(t) ==
    /\ At(t, "write_cache")
    /\ cache' = Put(cache, thread[t].key, thread[t].value)
    /\ Goto(t, "write_update")
    /\ UNCHANGED <<Unshared, runs, ret, lastCacheUpdate>>

\* lines 37 and 65, self._last_cache_update[cache_key] = datetime.now(), and
\* the return of the computed value
WriteUpdate(t) ==
    /\ At(t, "write_update")
    /\ lastCacheUpdate' = Put(lastCacheUpdate, thread[t].key, now)
    /\ Return(t, FALSE, FALSE, thread[t].value)
    /\ UNCHANGED <<Unshared, runs, cache>>

\* line 568, self._cache.clear()
ClearCache(t) ==
    /\ At(t, "clear_cache")
    /\ cache' = EmptyDict
    /\ Goto(t, "clear_update")
    /\ UNCHANGED <<Unshared, runs, ret, lastCacheUpdate>>

\* line 569, self._last_cache_update.clear()
ClearUpdate(t) ==
    /\ At(t, "clear_update")
    /\ lastCacheUpdate' = EmptyDict
    /\ thread' = [thread EXCEPT ![t] = Idle]
    /\ IF thread[t].op = "manual_input"      \* app.py line 513
       THEN \E met \in {MetConditions(store, now)} :
                user' = add_points(user, "manual_input", 10, "", met)
       ELSE user' = user
    /\ UNCHANGED <<store, anomalyStore, now, added, runs, ret, cache>>

NextConcurrent ==
    \/ \E t \in Threads : Call(t)
    \/ \E t \in Threads : InCache(t)
    \/ \E t \in Threads : InUpdate(t)
    \/ \E t \in Threads : ReadUpdate(t)
    \/ \E t \in Threads : ReadCache(t)
    \/ \E t \in Threads : Query(t)
    \/ \E t \in Threads : WriteCache(t)
    \/ \E t \in Threads : WriteUpdate(t)
    \/ \E t \in Threads : ClearCache(t)
    \/ \E t \in Threads : ClearUpdate(t)
    \/ Tick

SpecConcurrent == InitCache /\ [][NextConcurrent]_vars

\* app.py manual_input_page in the caller t: the reading is stored and
\* clear_cache() is entered
Submit(t) ==
    /\ At(t, "idle")
    /\ added < MaxAdded
    /\ added' = added + 1
    /\ \E c \in ManualCons :
        LET reading == Reading("d1", c, now, "manual")
        IN  /\ store' = add_energy_data(store, reading.device, reading.consumption,
                                        reading.ts, reading.source)
            /\ thread' = [thread EXCEPT ![t] =
                            [pc |-> "clear_cache", op |-> "manual_input",
                             reading |-> reading]]
    /\ UNCHANGED <<anomalyStore, now, runs, ret, cache, lastCacheUpdate, user>>

\* the callers' steps within the life of a cache entry: no minute passes
NextRace ==
    \/ \E t \in Threads : Submit(t)
    \/ \E t \in Threads : Call(t)
    \/ \E t \in Threads : InCache(t)
    \/ \E t \in Threads : InUpdate(t)
    \/ \E t \in Threads : ReadUpdate(t)
    \/ \E t \in Threads : ReadCache(t)
    \/ \E t \in Threads : Query(t)
    \/ \E t \in Threads : WriteCache(t)
    \/ \E t \in Threads : WriteUpdate(t)
    \/ \E t \in Threads : ClearCache(t)
    \/ \E t \in Threads : ClearUpdate(t)

SpecRace == InitCache /\ [][NextRace]_vars

(***************************************************************************)
(* Properties of the anomaly engine                                        *)
(***************************************************************************)
IsDetect == ret.op = "detect_anomalies"

\* the rows the last run fetched, and each detector's recent window
RunData == get_recent_energy_data(store, ret.hours_back * 7, ret.clk[0])
RunRecent(k) == Since(RunData, ret.clk[k] - Hours(ret.hours_back))

\* how many of the rows share a device, a timestamp and a consumption
SameReading(b, r) ==
    NRows(Where(b, {x \in DOMAIN b : x.device = r.device /\ x.ts = r.ts
                                      /\ x.consumption = r.consumption}))

Reported(ty, r, sev) ==
    CopiesIn(Anomaly(ty, r.device, sev, r.ts, r.consumption), ret.value)

\* what each detector returns on the fetched rows when nothing fails
DetectorOutput(name) ==
    CASE name = "stat" ->
            _detect_statistical_anomalies(RunData, ret.hours_back, ret.clk[1], "none").anoms
      [] name = "high" ->
            _detect_high_usage(RunData, ret.hours_back, ret.clk[2], "none").anoms
      [] name = "dev" ->
            _detect_device_anomalies(RunData, ret.hours_back, ret.clk[3], ret.clk[4], "none").anoms
      [] name = "pat" ->
            _detect_pattern_anomalies(RunData, ret.hours_back, ret.clk[5], "none").anoms

FaultyDetector(fault) ==
    CASE fault \in {"stat_filter", "stat_compute"} -> "stat"
      [] fault \in {"high_filter", "high_compute"} -> "high"
      [] fault \in {"dev_filter", "dev_compute"} -> "dev"
      [] fault \in {"pat_filter", "pat_compute"} -> "pat"

\* C1: a failure inside any one detector is caught and suppressed:
\* detect_anomalies does not raise and still returns the anomalies of every
\* other detector.
C1_FailureSuppressed ==
    (IsDetect /\ ret.fault # "none" /\ ~IsEmpty(RunData)) =>
        /\ ~ret.raised
        /\ \A name \in {"stat", "high", "dev", "pat"} \ {FaultyDetector(ret.fault)} :
                DetectorOutput(name) \sqsubseteq ret.value

\* the reading x lies exactly k sample standard deviations above the mean of
\* the rows dd, and the standard deviation is not 0
SigmasAbove(dd, x, k) ==
    /\ ScaledVar(dd) > 0
    /\ NRows(dd) * x > SumCons(dd)
    /\ Dev2Cmp(dd, x, NRows(dd) - 1, k * k * NRows(dd)) = 0

\* C7 (as stated): with threshold multiplier 2.0, a recent reading at
\* mean + 3 sigma of its device is flagged statistical_outlier with
\* severity high, and one at mean + 1 sigma is never flagged.
C7_ThreeSigmaHigh ==
    (IsDetect /\ ~ret.raised) =>
        \A r \in DOMAIN RunRecent(1) :
            LET dd == OfDevice(RunData, r.device)
            IN  /\ SigmasAbove(dd, r.consumption, 3) =>
                        Reported("statistical_outlier", r, "high") >= 1
                /\ SigmasAbove(dd, r.consumption, 1) =>
                        /\ Reported("statistical_outlier", r, "high") = 0
                        /\ Reported("statistical_outlier", r, "medium") = 0

\* C7 (amended): a recent reading at mean + 3 sigma (z = 3, which is not
\* above 1.5 x 2.0) is flagged statistical_outlier with severity medium, once
\* per stored copy and never with severity high; a recent reading at
\* mean + 1 sigma is never flagged.
C7_ThreeSigmaMedium ==
    (IsDetect /\ ~ret.raised) =>
        \A r \in DOMAIN RunRecent(1) :
            LET dd == OfDevice(RunData, r.device)
            IN  /\ SigmasAbove(dd, r.consumption, 3) =>
                        /\ Reported("statistical_outlier", r, "medium")
                                = SameReading(RunRecent(1), r)
                        /\ Reported("statistical_outlier", r, "high") = 0
                /\ SigmasAbove(dd, r.consumption, 1) =>
                        /\ Reported("statistical_outlier", r, "high") = 0
                        /\ Reported("statistical_outlier", r, "medium") = 0

\* a run over a device with one recent reading at mean + 3 sigma and another
\* at mean + 1 sigma
C7_Witness ==
    /\ IsDetect /\ ~ret.raised
    /\ \E r, q \in DOMAIN RunRecent(1) :
            /\ r.device = q.device
            /\ SigmasAbove(OfDevice(RunData, r.device), r.consumption, 3)
            /\ SigmasAbove(OfDevice(RunData, r.device), q.consumption, 1)
            /\ Reported("statistical_outlier", r, "medium") >= 1

\* C8: of the readings in the recent window, one of exactly the threshold is
\* not flagged by the high-usage detector, one in (T, 2T] is flagged
\* high_usage with severity medium and one above 2T with severity high; the
\* detector flags nothing else.
C8_HighUsageBands ==
    (IsDetect /\ ~ret.raised) =>
        /\ \A r \in DOMAIN RunRecent(2) :
            LET c == r.consumption
                n == SameReading(RunRecent(2), r)
                T == HIGH_USAGE_THRESHOLD
            IN  /\ Reported("high_usage", r, "medium") = IF T < c /\ c <= 2 * T THEN n ELSE 0
                /\ Reported("high_usage", r, "high") = IF c > 2 * T THEN n ELSE 0
        /\ \A a \in DOMAIN ret.value :
            a.type = "high_usage" =>
                \E r \in DOMAIN RunRecent(2) :
                    r.device = a.device /\ r.ts = a.ts /\ r.consumption = a.value

\* a run over recent readings of exactly T, exactly 2T and 2T + 0.01
C8_Witness ==
    /\ IsDetect /\ ~ret.raised
    /\ \E r, q, h \in DOMAIN RunRecent(2) :
            /\ r.consumption = HIGH_USAGE_THRESHOLD
            /\ q.consumption = 2 * HIGH_USAGE_THRESHOLD
            /\ h.consumption = 2 * HIGH_USAGE_THRESHOLD + 1
            /\ Reported("high_usage", q, "medium") = 1
            /\ Reported("high_usage", h, "high") = 1

\* C9: a run emits exactly one device_inactive anomaly for every device of
\* the store whose most recent reading is older than 2 hours, and none for a
\* device whose most recent reading is 2 hours old or newer.
C9_InactiveFlaggedOnce ==
    (IsDetect /\ ~ret.raised) =>
        \A d \in DevicesIn(store) :
            NRows(Where(ret.value, {a \in DOMAIN ret.value :
                                      a.type = "device_inactive" /\ a.device = d}))
                = IF MaxTs(OfDevice(store, d)) < ret.clk[4] - Hours(2) THEN 1 ELSE 0

\* the consumption_drop anomalies the last run returned for device d
DropsFor(d) ==
    Where(ret.value, {a \in DOMAIN ret.value :
                        a.type = "consumption_drop" /\ a.device = d})

\* the rows of device d the device detector took as pre-window and as recent
DropHistorical(d) ==
    Before(OfDevice(RunData, d), ret.clk[3] - Hours(ret.hours_back))
DropRecent(d) == OfDevice(RunRecent(3), d)

\* recent mean < 30% of the pre-window mean, and that mean > 0.1 kWh
MeanDropped(d) ==
    /\ ~IsEmpty(DropRecent(d)) /\ ~IsEmpty(DropHistorical(d))
    /\ 10 * SumCons(DropRecent(d)) * NRows(DropHistorical(d))
            < 3 * SumCons(DropHistorical(d)) * NRows(DropRecent(d))
    /\ SumCons(DropHistorical(d)) > 10 * NRows(DropHistorical(d))

\* the run returned one medium consumption_drop for d if expected, else none
DropEmittedIff(d, expected) ==
    /\ NRows(DropsFor(d)) = IF expected THEN 1 ELSE 0
    /\ \A a \in DOMAIN DropsFor(d) : a.severity = "medium"

\* C21 (as stated): a consumption_drop anomaly (severity medium) is emitted
\* for a device if and only if the device has at least 5 pre-window readings,
\* at least one reading in the recent window, its recent mean is below 30% of
\* its pre-window mean, and that mean exceeds 0.1 kWh.
C21_DropIffFiveBeforeWindow ==
    (IsDetect /\ ~ret.raised) =>
        \A d \in Devices :
            DropEmittedIff(d, NRows(DropHistorical(d)) >= 5 /\ MeanDropped(d))

\* C21 (amended): a consumption_drop anomaly (severity medium) is emitted
\* for a device if and only if the device has at least 5 readings among the
\* fetched rows (pre-window and recent together), at least one of them before
\* the window and at least one in it, its recent mean is below 30% of its
\* pre-window mean, and that mean exceeds 0.1 kWh.
C21_DropIffFiveFetched ==
    (IsDetect /\ ~ret.raised) =>
        \A d \in Devices :
            DropEmittedIff(d, NRows(OfDevice(RunData, d)) >= 5 /\ MeanDropped(d))

\* a run that flags a device with four pre-window readings and one recent one
C21_Witness ==
    /\ IsDetect /\ ~ret.raised
    /\ \E d \in Devices :
            /\ NRows(DropHistorical(d)) = 4 /\ NRows(DropRecent(d)) = 1
            /\ NRows(DropsFor(d)) = 1
\* the pattern_deviation anomalies the last run returned for hour-of-day h
PatternsFor(h) ==
    Where(ret.value, {a \in DOMAIN ret.value :
                        a.type = "pattern_deviation" /\ a.value = h})

\* the rows the pattern detector took as pre-window and as recent, at hour h
PatternHistorical == Before(RunData, ret.clk[5] - Hours(ret.hours_back))
AtHour(b, h) == Where(b, {r \in DOMAIN b : HourOf(r.ts) = h})

\* the sign of ratio - k / 10 at hour h, ratio = recent mean / historical mean
RatioCmp(h, k) ==
    LET rec == AtHour(RunRecent(5), h)
        hist == AtHour(PatternHistorical, h)
    IN  CmpFrac(10 * SumCons(rec) * NRows(hist), SumCons(hist) * NRows(rec), k, 1)

\* hour h is in both windows with a positive historical mean
PatternCompared(h) ==
    /\ ~IsEmpty(AtHour(RunRecent(5), h))
    /\ SumCons(AtHour(PatternHistorical, h)) > 0

\* the anomalies of hour h are as the ratio says when the detector has
\* enough rows, and there are none when it has not
PatternEmittedIff(h, enough) ==
    LET deviates == enough /\ PatternCompared(h)
                        /\ (RatioCmp(h, 20) = 1 \/ RatioCmp(h, 5) = -1)
        high == RatioCmp(h, 30) = 1 \/ RatioCmp(h, 3) = -1
    IN  /\ NRows(PatternsFor(h)) = IF deviates THEN 1 ELSE 0
        /\ \A a \in DOMAIN PatternsFor(h) :
                /\ a.device = "system"
                /\ a.severity = IF high THEN "high" ELSE "medium"

\* C22 (as stated): pattern-deviation detection runs only when there are at
\* least 24 pre-window readings; for each hour-of-day present in both
\* windows with historical mean > 0, one anomaly of device "system" is
\* emitted exactly when the ratio is > 2.0 or < 0.5, with severity high iff
\* the ratio is > 3.0 or < 0.3, else medium; at most one per hour-of-day.
C22_PatternNeedsHistory ==
    (IsDetect /\ ~ret.raised) =>
        \A h \in 0..23 : PatternEmittedIff(h, NRows(PatternHistorical) >= 24)

\* C22 (amended): the same, the detection running when the fetched rows,
\* pre-window and recent together, are at least 24.
C22_PatternNeedsRows ==
    (IsDetect /\ ~ret.raised) =>
        \A h \in 0..23 : PatternEmittedIff(h, NRows(RunData) >= 24)

\* a run over 23 pre-window readings and a recent one that flags the hour
C22_Witness ==
    /\ IsDetect /\ ~ret.raised
    /\ NRows(PatternHistorical) = 23
    /\ \E h \in 0..23 : NRows(PatternsFor(h)) = 1
\* the device of reading r has at least 10 fetched rows and a standard
\* deviation that is not 0
StatEvaluated(r) ==
    /\ NRows(OfDevice(RunData, r.device)) >= 10
    /\ ScaledVar(OfDevice(RunData, r.device)) # 0

\* |x - mean| / std > k / 2 for the reading r among the rows of its device
ZScoreAbove(r, k) ==
    LET dd == OfDevice(RunData, r.device)
    IN  Dev2Cmp(dd, r.consumption, 4 * (NRows(dd) - 1), k * k * NRows(dd)) = 1

\* C23: the statistical-outlier detector evaluates a device only if it has
\* at least 10 fetched readings and a non-zero standard deviation, mean and
\* std taken over those readings; each recent reading of such a device is
\* flagged exactly when |x - mean| / std > threshold, with severity high iff
\* the z-score > 1.5 x threshold; no other statistical_outlier is returned.
C23_OutlierPerEvaluatedDevice ==
    (IsDetect /\ ~ret.raised) =>
        /\ \A r \in DOMAIN RunRecent(1) :
            LET n == SameReading(RunRecent(1), r)
                flagged == StatEvaluated(r)
                            /\ ZScoreAbove(r, 2 * ANOMALY_DETECTION_THRESHOLD)
                high == ZScoreAbove(r, 3 * ANOMALY_DETECTION_THRESHOLD)
            IN  /\ Reported("statistical_outlier", r, "high")
                        = IF flagged /\ high THEN n ELSE 0
                /\ Reported("statistical_outlier", r, "medium")
                        = IF flagged /\ ~high THEN n ELSE 0
        /\ \A a \in DOMAIN ret.value :
            a.type = "statistical_outlier" =>
                \E r \in DOMAIN RunRecent(1) :
                    r.device = a.device /\ r.ts = a.ts /\ r.consumption = a.value

\* a run over a device with at least 10 rows of which one recent reading is
\* flagged and another is not
C23_Witness ==
    /\ IsDetect /\ ~ret.raised
    /\ \E r, q \in DOMAIN RunRecent(1) :
            /\ r.device = q.device /\ StatEvaluated(r)
            /\ Reported("statistical_outlier", r, "high") = 1
            /\ Reported("statistical_outlier", q, "high") = 0
            /\ Reported("statistical_outlier", q, "medium") = 0
\* the clock reads from which the four detectors take their cutoff_time
CutoffReads == {1, 2, 3, 5}

\* C24: within one detect_anomalies invocation the four detectors use one
\* and the same recent/historical cutoff instant, so every fetched reading is
\* taken as recent by all detectors or by none, even when the clock advances
\* while the invocation runs.
C24_OneCutoffPerRun ==
    IsDetect =>
        \A r \in DOMAIN RunData :
            \A j, k \in CutoffReads :
                (r \in DOMAIN RunRecent(j)) = (r \in DOMAIN RunRecent(k))
\* the four detectors' outputs on the rows data, one after the other
Concatenation(data, hours_back, clk) ==
    _detect_statistical_anomalies(data, hours_back, clk[1], "none").anoms
        (+) _detect_high_usage(data, hours_back, clk[2], "none").anoms
        (+) _detect_device_anomalies(data, hours_back, clk[3], clk[4], "none").anoms
        (+) _detect_pattern_anomalies(data, hours_back, clk[5], "none").anoms

\* C25: detect_anomalies performs no deduplication within or across runs:
\* the returned list is the concatenation of the four detectors' outputs,
\* every run adds each returned anomaly to the anomaly store, and a run over
\* the same readings and the same window as the run before it returns the
\* same anomalies, so that k such runs add k copies of each.
C25_EveryRunAppends ==
    [][runs' = runs + 1 =>
            LET clk == ret'.clk
                hours_back == ret'.hours_back
                data == get_recent_energy_data(store, hours_back * 7, clk[0])
            IN  /\ store' = store
                /\ ret'.value = Concatenation(data, hours_back, clk)
                /\ anomalyStore' = anomalyStore (+) ret'.value
                /\ (IsDetect /\ clk = ret.clk) =>
                        /\ ret'.value = ret.value
                        /\ ret.value \sqsubseteq anomalyStore
                        /\ anomalyStore' = anomalyStore (+) ret.value]_vars

\* two runs in a row over the same readings and window have left two copies
\* of each anomaly, among them a statistical_outlier and a high_usage of one
\* reading
C25_Witness ==
    /\ IsDetect /\ runs = 2
    /\ anomalyStore = ret.value (+) ret.value
    /\ \E r \in DOMAIN RunRecent(1) :
            /\ Reported("statistical_outlier", r, "high") = 1
            /\ Reported("high_usage", r, "medium") = 1
            /\ \A a \in DOMAIN ret.value :
                    (a.device = r.device /\ a.ts = r.ts /\ a.value = r.consumption)
                        => CopiesIn(a, anomalyStore) = 2

(***************************************************************************)
(* Properties of the DataProcessor's analytic calls.                       *)
(***************************************************************************)
Returned(op) == ret.op = op
Failed == \E i \in DOMAIN ret.faults : ret.faults[i] # "none"

\* the rows of the store in the look-back of a call made now
InPeriod(days_back) ==
    get_energy_data_range(store, DateOf(now) - days_back, DateOf(now), "none")

\* C4: with no reading in the period, calculate_energy_efficiency_score
\* returns score 0 and grade "N/A", and detect_anomalies returns no anomaly,
\* persists none and does not raise.
C4_EmptyPeriod ==
    /\ [](/\ (Returned("calculate_energy_efficiency_score") /\ IsEmpty(InPeriod(StatsDays)))
                => (ret.value.score = 0 /\ ret.value.grade = "N/A")
          /\ (IsDetect /\ IsEmpty(RunData))
                => (~ret.raised /\ ret.value = EmptyBag))
    /\ [][(IsDetect' /\ runs' = runs + 1 /\ IsEmpty(RunData'))
                => anomalyStore' = anomalyStore]_vars

\* detect_anomalies has run on a store without a reading in its window, and
\* the score of a store without a reading has been returned
C4_Witness ==
    /\ Returned("calculate_energy_efficiency_score")
    /\ IsEmpty(store)
    /\ ret.value.grade = "N/A"
    /\ runs = 1
    /\ anomalyStore = EmptyBag

\* what each analytic call returns for an empty range
EmptyRangeResult(op) ==
    CASE op = "get_consumption_statistics" ->
            get_consumption_statistics(EmptyBag, StatsDays, now, "none")
      [] op = "get_device_consumption_breakdown" ->
            get_device_consumption_breakdown(EmptyBag, StatsDays, now, "none")
      [] op = "get_cost_analysis" ->
            get_cost_analysis(EmptyBag, StatsDays, now, "none", "none", "none")
      [] op = "detect_usage_trends" ->
            detect_usage_trends(EmptyBag, TrendDays, now, "none", "none")

\* C5: a failing retrieval (the store unreachable, or a row on which the
\* computation raises) makes get_consumption_statistics,
\* get_device_consumption_breakdown, get_cost_analysis and
\* detect_usage_trends return exactly what they return for an empty range.
C5_FailureIsEmptyRange ==
    (/\ ret.op \in {"get_consumption_statistics", "get_device_consumption_breakdown",
                    "get_cost_analysis", "detect_usage_trends"}
     /\ Failed)
        => ret.value = EmptyRangeResult(ret.op)

\* C6: when the statistics retrieval or the hourly-pattern retrieval of
\* calculate_energy_efficiency_score fails, the result is score 0, grade
\* "N/A" and exactly one recommendation.
C6_FailureGivesNoScore ==
    (Returned("calculate_energy_efficiency_score") /\ Failed)
        => /\ ret.value.score = 0
           /\ ret.value.grade = "N/A"
           /\ Len(ret.value.recommendations) = 1

\* C10: for a non-empty range the percentages of
\* get_device_consumption_breakdown sum to 100 within 0.1.
C10_PercentagesSumTo100 ==
    (Returned("get_device_consumption_breakdown") /\ ~Failed /\ ret.value # {})
        => /\ \A row \in ret.value : ~row.percentage.nan
           /\ LET total == SumOver([row \in ret.value |-> row.percentage.tenths], ret.value)
              IN  total >= 999 /\ total <= 1001

\* the statistics behind the last call, which the store still determines
StatsNow == get_consumption_statistics(store, StatsDays, now, "none")

\* a cost analysis of a range with consumption, no retrieval failing
CostReturned ==
    /\ Returned("get_cost_analysis") /\ ~Failed
    /\ ~IsEmpty(InPeriod(StatsDays))
    /\ StatsNow.total_consumption > 0

\* daily_average_cost * days_with_data - total_cost of the returned dict, in
\* cents
RoundTripError ==
    ret.value.daily_average_cost * StatsNow.days_with_data - ret.value.total_cost

\* C11 (as stated): for a non-empty range, daily_average_cost times
\* days_with_data equals total_cost within 1e-6 (below the cent, so exactly).
C11_CostRoundTripExact ==
    CostReturned => RoundTripError = 0

\* C11 (amended): both amounts are returned rounded to the cent, so
\* daily_average_cost times days_with_data differs from total_cost by at
\* most half a cent per day with data plus half a cent.
C11_CostRoundTripToCent ==
    (Returned("get_cost_analysis") /\ ~Failed) =>
        LET stats == StatsNow
            error == ret.value.daily_average_cost * stats.days_with_data
                        - ret.value.total_cost
        IN  stats.total_consumption > 0 =>
                /\ 2 * error <= stats.days_with_data + 1
                /\ 2 * error >= -(stats.days_with_data + 1)

\* a cost analysis over several days whose daily average is not a whole
\* number of cents
C11_Witness ==
    /\ CostReturned
    /\ StatsNow.days_with_data >= 2
    /\ RoundTripError # 0

\* both averages of a comparison lie above the 25 kWh reference
AboveReference ==
    /\ Returned("usage_level")
    /\ ret.a[1] > typical_daily_usage * ret.a[2]

\* level_b < level_a, level_b <= level_a as exact fractions
LevelDrops == CmpFrac(ret.level_b[1], ret.level_b[2], ret.level_a[1], ret.level_a[2]) = -1
LevelNotAbove == CmpFrac(ret.level_b[1], ret.level_b[2], ret.level_a[1], ret.level_a[2]) <= 0

TrendTotals == DailyTotals(InPeriod(TrendDays))
TrendsReturned == Returned("detect_usage_trends") /\ ret.faults[1] = "none"
OverallTypes ==
    {"increasing_consumption", "decreasing_consumption", "stable_consumption"}
OverallEntries == {i \in DOMAIN ret.value.trends : ret.value.trends[i].type \in OverallTypes}

\* C13: from at least 7 daily totals detect_usage_trends emits exactly one
\* overall-trend entry, chosen by the least-squares slope against the day
\* index: above 0.1 kWh a day increasing_consumption (medium below 1 kWh a
\* day, else high), below -0.1 decreasing_consumption (positive), otherwise
\* stable_consumption (low).
C13_OverallTrendBySlope ==
    (TrendsReturned /\ Cardinality(DOMAIN TrendTotals) >= 7) =>
        /\ Cardinality(OverallEntries) = 1
        /\ LET e == ret.value.trends[CHOOSE i \in OverallEntries : TRUE]
               slope == Slope(TrendTotals)
           IN  /\ e.type = "increasing_consumption" <=> slope.num > 10 * slope.den
               /\ e.type = "decreasing_consumption" <=> slope.num < (-10) * slope.den
               /\ e.type = "increasing_consumption" =>
                     (e.severity = "medium" <=> slope.num < 100 * slope.den)
                     /\ e.severity \in {"medium", "high"}
               /\ e.type = "decreasing_consumption" => e.severity = "positive"
               /\ e.type = "stable_consumption" => e.severity = "low"

\* ten daily totals rising by exactly 0.5 kWh a day give
\* increasing_consumption with severity medium
C13_Witness ==
    /\ TrendsReturned
    /\ Cardinality(DOMAIN TrendTotals) = 10
    /\ Slope(TrendTotals).num = 50 * Slope(TrendTotals).den
    /\ ret.value.trends[1] = Trend("increasing_consumption", "medium")

\* C14: with fewer than 7 distinct days of data in the look-back,
\* detect_usage_trends returns no trend entry and a summary that says the
\* data is insufficient (or, with no row at all, that there is none).
C14_InsufficientData ==
    (TrendsReturned /\ Cardinality(DOMAIN TrendTotals) < 7) =>
        /\ ret.value.trends = << >>
        /\ ret.value.summary =
              IF IsEmpty(InPeriod(TrendDays)) THEN "No data available for trend analysis"
              ELSE "Insufficient data for trend analysis"
        /\ DOMAIN ret.value = {"trends", "summary"}

\* the trends of a store with six days of data have been asked for
C14_Witness ==
    /\ TrendsReturned
    /\ Cardinality(DOMAIN TrendTotals) = 6
    /\ ret.value.summary = "Insufficient data for trend analysis"

\* the daily totals of the Saturdays and Sundays, and of the other days
WeekendDays == {d \in DOMAIN TrendTotals : d % 7 \in {5, 6}}
WeekdayDays == DOMAIN TrendTotals \ WeekendDays
TotalOver(days) == SumOver([d \in days |-> TrendTotals[d]], days)

\* the sign of (mean weekend daily total) * 10 - (mean weekday daily total) * k
WeekendCmp(k) ==
    MulCmp(TotalOver(WeekendDays) * Cardinality(WeekdayDays), 10,
           k, TotalOver(WeekdayDays) * Cardinality(WeekendDays))

TimesTrend(trend) ==
    Cardinality({i \in DOMAIN ret.value.trends : ret.value.trends[i] = trend})
WeekendEntries ==
    {i \in DOMAIN ret.value.trends :
        ret.value.trends[i].type \in {"weekend_spike", "weekend_drop"}}

\* C26: with at least 14 days of data the weekend/weekday skew compares the
\* mean of the weekend daily totals with the mean of the weekday daily
\* totals: weekend_spike (medium) iff the weekend mean is more than 20%
\* higher, weekend_drop (low) iff it is more than 20% lower, neither
\* otherwise; with fewer than 14 days neither is emitted.
C26_WeekendSkewByDailyTotals ==
    (TrendsReturned /\ ~Failed /\ Cardinality(DOMAIN TrendTotals) >= 7) =>
        LET compared == /\ Cardinality(DOMAIN TrendTotals) >= 14
                        /\ WeekendDays # {} /\ WeekdayDays # {}
            spike == compared /\ WeekendCmp(12) = 1
            drop == compared /\ WeekendCmp(8) = -1
        IN  /\ TimesTrend(Trend("weekend_spike", "medium")) = IF spike THEN 1 ELSE 0
            /\ TimesTrend(Trend("weekend_drop", "low")) = IF drop THEN 1 ELSE 0
            /\ Cardinality(WeekendEntries) = IF spike \/ drop THEN 1 ELSE 0

\* the consumption recorded in the clock hours 17..21 of the look-back
PeakHourConsumption ==
    SumCons(Where(InPeriod(StatsDays),
                  {r \in DOMAIN InPeriod(StatsDays) :
                        HourOf(r.ts) >= 17 /\ HourOf(r.ts) <= 21}))
PeakHourEntries ==
    {o \in ret.value.savings_opportunities : o.type = "peak_hour_usage"}

\* C27: get_cost_analysis emits a peak_hour_usage savings opportunity, with
\* potential_savings equal to 20% of the peak-hour cost, if and only if the
\* cost of the consumption recorded in clock hours 17..21 exceeds 30% of the
\* total cost over the window.
C27_PeakHourSavings ==
    CostReturned =>
        LET exceeds == 10 * PeakHourConsumption > 3 * SumCons(InPeriod(StatsDays))
        IN  /\ Cardinality(PeakHourEntries) = IF exceeds THEN 1 ELSE 0
            /\ \A o \in PeakHourEntries :
                    \* potential_savings in cents = 0.2 * kWh * cents per kWh
                    o.potential_savings[1] * 1000
                        = 2 * PeakHourConsumption * ENERGY_COST_PER_KWH
                            * o.potential_savings[2]

\* a step in which an analytic call returns
AnalyticStep == ret'.op # "none" /\ (ret' # ret \/ runs' # runs)

\* C15: no analytic call inserts, updates or deletes a reading: the store is
\* the same after the call, and only detect_anomalies adds to the anomalies,
\* exactly those it returns.
C15_ReadingsUnchanged ==
    [][AnalyticStep =>
          /\ store' = store
          /\ anomalyStore' = IF ret'.op = "detect_anomalies"
                               THEN anomalyStore (+) ret'.value
                               ELSE anomalyStore]_vars

\* after detect_anomalies persisted an anomaly and a reading was entered, an
\* aggregate of a store with repeated rows has been returned
C15_Witness ==
    /\ Returned("get_consumption_statistics")
    /\ runs = 1
    /\ anomalyStore # EmptyBag
    /\ \E r \in DOMAIN store : store[r] > 1

\* a score with its four factors has been returned
ScoreReturned ==
    Returned("calculate_energy_efficiency_score") /\ ret.value.grade # "N/A"

\* C17: each factor of a returned score lies in [0, 100], the weights sum
\* to 1.0 and the score lies in [0, 100]; an input with consumption gets
\* all four factors.
C17_FactorsAndScoreInRange ==
    Returned("calculate_energy_efficiency_score") =>
        /\ SumOver(weights, DOMAIN weights) = 10
        /\ ret.value.score >= 0 /\ ret.value.score <= 1000
        /\ \A k \in DOMAIN ret.value.factors :
              ret.value.factors[k] >= 0 /\ ret.value.factors[k] <= 1000
        /\ (ret.faults[1] = "none" /\ StatsNow.total_consumption > 0)
              => DOMAIN ret.value.factors = DOMAIN weights

\* a score whose off-peak hours use more than its peak hours: the ratio is
\* capped at 100
C17_Witness ==
    /\ ScoreReturned
    /\ ret.value.factors.peak_management = 1000
    /\ ret.value.score > 0

\* the lowest and the highest score of a grade, in tenths of a point
GradeFloor(grade) ==
    CASE grade = "A+" -> 900 [] grade = "A" -> 800 [] grade = "B" -> 700
      [] grade = "C" -> 600 [] grade = "D" -> 500 [] grade = "F" -> 0
GradeCeiling(grade) ==
    CASE grade = "A+" -> 1000 [] grade = "A" -> 900 [] grade = "B" -> 800
      [] grade = "C" -> 700 [] grade = "D" -> 600 [] grade = "F" -> 500

\* C18 (as stated): the grade is the one the thresholds 90, 80, 70, 60, 50
\* give for the returned score: no score at or above a threshold comes with a
\* grade below that threshold's grade.
C18_GradeOfReturnedScore ==
    ScoreReturned =>
        /\ ret.value.score >= GradeFloor(ret.value.grade)
        /\ ret.value.score < GradeCeiling(ret.value.grade) \/ ret.value.grade = "A+"

\* C18 (amended): the grade is taken from the weighted score before it is
\* rounded to one decimal, so the returned score lies between the threshold
\* of its grade and the next threshold, both included: a score equal to a
\* threshold may carry the grade below it.
C18_GradeOfUnroundedScore ==
    ScoreReturned =>
        /\ ret.value.score >= GradeFloor(ret.value.grade)
        /\ ret.value.score <= GradeCeiling(ret.value.grade)

\* a weighted score of 69.97 is returned as 70.0 with the grade C
C18_Witness ==
    /\ ScoreReturned
    /\ ret.value.score = 700
    /\ ret.value.grade = "C"

\* the factors of the last score before rounding
FactorsNow ==
    LET stats == get_consumption_statistics(store, StatsDays, now, ret.faults[1])
    IN  [usage_level |-> UsageLevel(stats),
         consistency |-> Consistency(stats),
         peak_management |->
            PeakManagement(get_hourly_consumption_pattern(store, StatsDays, now,
                                                          ret.faults[2])),
         data_completeness |-> DataCompleteness(stats, StatsDays)]

Sentence ==
    [usage_level |-> "Consider reducing overall energy consumption",
     consistency |-> "Try to maintain more consistent daily usage patterns",
     peak_management |-> "Shift energy usage away from peak hours (5-9 PM)",
     data_completeness |-> "Improve data collection for better analysis"]
Congratulation == "Great job! Keep maintaining your energy efficiency practices"
Times(text) ==
    Cardinality({i \in DOMAIN ret.value.recommendations :
                    ret.value.recommendations[i] = text})

\* the recommendations are one sentence for each factor below its limit (in
\* hundredths of a point) and the congratulation if and only if there is none
SentencePerWeakFactor(limit) ==
    LET factors == FactorsNow
        weak == {k \in DOMAIN Sentence : factors[k] < limit[k]}
    IN  /\ \A k \in DOMAIN Sentence :
              Times(Sentence[k]) = IF k \in weak THEN 1 ELSE 0
        /\ Times(Congratulation) = IF weak = {} THEN 1 ELSE 0
        /\ Len(ret.value.recommendations) = Max(1, Cardinality(weak))

\* C19 (as stated): one sentence for each factor below 50, none for a factor
\* at or above 50, and the congratulation if and only if no factor is below
\* 50.
C19_SentencePerFactorBelowFifty ==
    ScoreReturned => SentencePerWeakFactor([k \in DOMAIN Sentence |-> 5000])

\* C19 (amended): usage_level, consistency and peak_management are weak
\* below 50 and data_completeness below 80; there is one sentence for each
\* weak factor and the congratulation if and only if none is weak.
C19_SentencePerWeakFactor ==
    ScoreReturned =>
        SentencePerWeakFactor([k \in DOMAIN Sentence |->
                                  IF k = "data_completeness" THEN 8000 ELSE 5000])

\* a score with a data completeness between 50 and 80 and its sentence
C19_Witness ==
    /\ ScoreReturned
    /\ FactorsNow.data_completeness >= 5000
    /\ FactorsNow.data_completeness < 8000
    /\ Times(Sentence.data_completeness) = 1

\* peak_management from the hour of day of each row of the hourly pattern:
\* the mean of the rows of 23 and 0..6 h over the mean of the rows of
\* 17..21 h, capped at 100; 50 when a band has no row or the peak mean is 0
PeakManagementByHour(hourly_pattern) ==
    LET peak_hours == {i \in DOMAIN hourly_pattern :
                          hourly_pattern[i].hour >= 17 /\ hourly_pattern[i].hour <= 21}
        off_peak_hours == {i \in DOMAIN hourly_pattern :
                              hourly_pattern[i].hour >= 23 \/ hourly_pattern[i].hour <= 6}
        avg == [i \in DOMAIN hourly_pattern |-> hourly_pattern[i].avg_consumption]
        peak_sum == SumOver(avg, peak_hours)
        off_peak_sum == SumOver(avg, off_peak_hours)
    IN  IF peak_hours = {} \/ off_peak_hours = {} \/ peak_sum = 0 THEN 5000
        ELSE Min(10000, LongDiv(off_peak_sum * Cardinality(peak_hours),
                                peak_sum * Cardinality(off_peak_hours), 4).q)

\* C20: peak_management is computed from clock hours, whichever hours have
\* data: min(100, 100 x off-peak mean / peak mean), and the neutral 50 only
\* when a band has no data or the peak mean is 0.
C20_PeakManagementByClockHour ==
    (ScoreReturned /\ ~Failed) =>
        ret.value.factors.peak_management =
            RoundHalfEven(PeakManagementByHour(
                get_hourly_consumption_pattern(store, StatsDays, now, "none")), 10)

(***************************************************************************)
(* Properties of the cache.                                                *)
(***************************************************************************)
IsAccessor == ret.op \in {"get_daily_total", "get_current_consumption"}

\* C2: an accessor that clear_cache or another caller's cache write
\* interleaves with returns the cached value or a value computed from the
\* store (at some time since the start), never the error fallback.
C2_NoFallbackUnderInterleaving ==
    IsAccessor => /\ ~ret.fallback
                  /\ \E t \in Now0..now : ret.value \in Fresh(store, ret.key, t)

\* C3: get_daily_total never returns a total that omits a stored reading of
\* its date, whichever path inserted the reading.
C3_DailyTotalIncludesEveryReading ==
    Returned("get_daily_total") => ret.value = DailyTotal(store, ret.key[2])

\* the entry of a key is there and younger than the timeout
EntryValid(key) ==
    /\ key \in DOMAIN cache /\ key \in DOMAIN lastCacheUpdate
    /\ now - lastCacheUpdate[key] < _cache_timeout

\* a step of a cached accessor that changes anything
AccessorStep ==
    /\ ret'.op \in {"get_daily_total", "get_current_consumption"}
    /\ (ret' # ret \/ cache' # cache \/ lastCacheUpdate' # lastCacheUpdate)

\* C16: a call for a key is served from the cache, without a query and
\* without a write, exactly while the entry is there (written and not
\* cleared since) and younger than 5 minutes; otherwise the call queries
\* the store and rewrites the entry with the time of the call.
C16_ServedWhileFresh ==
    [][AccessorStep =>
          LET key == ret'.key
          IN  IF EntryValid(key)
              THEN /\ ret'.cached /\ ret'.value = cache[key]
                   /\ cache' = cache /\ lastCacheUpdate' = lastCacheUpdate
              ELSE /\ ~ret'.cached /\ ret'.value \in Fresh(store, key, now)
                   /\ cache'[key] = ret'.value
                   /\ lastCacheUpdate'[key] = now]_vars

\* with no reading inserted and so no clear_cache, a call at least 5
\* minutes after the start has queried the store and rewritten its entry
\* while the entry of the other key, written earlier, is still there
C16_Witness ==
    /\ IsAccessor /\ ~ret.cached
    /\ added = 0
    /\ now - Now0 >= _cache_timeout
    /\ lastCacheUpdate[ret.key] = now
    /\ \E k \in DOMAIN lastCacheUpdate : lastCacheUpdate[k] < now

\* the readings whose manual entry has stored them without its clear_cache()
\* having returned yet, and the rest of the store
Submitting ==
    {t \in Threads : ~At(t, "idle") /\ thread[t].op = "manual_input"}
Settled == store (-) BagUnion({SetToBag({thread[t].reading}) : t \in Submitting})

\* the caller t returns from get_daily_total without an exception
DailyTotalReturns(t) ==
    /\ ~At(t, "idle") /\ thread[t].op = "get_daily_total"
    /\ thread'[t] = Idle
    /\ ~ret'.fallback

\* C28: once clear_cache has returned after a reading was inserted, every
\* get_daily_total call that returns afterwards yields a total that includes
\* the reading, also when another get_daily_total call for the date had
\* queried the store and not yet written the cache when the reading was
\* inserted and the cache cleared.
C28_TotalIncludesSettledReadings ==
    [][\A t \in Threads :
            DailyTotalReturns(t) =>
                ret'.value >= DailyTotal(Settled, thread[t].key[2])]_vars

(***************************************************************************)
(* The gamification page and the manual form: the calls of add_points.     *)
(***************************************************************************)
\* the reward_points of the challenges init_database inserts
ChallengeRewards == {100, 50, 75}

\* thirteen days up to yesterday, 3 kWh a day at first and 1 kWh a day in
\* the last week
BaseSaving ==
    SetToBag({Reading("d1", IF i > 7 THEN 300 ELSE 100, Now0 - Hours(24 * i), "iot") :
                 i \in 1..13})

\* the stores the profile is built on: none, six days apart from today, a
\* week up to yesterday, ten days up to today, twenty-three days, and two
\* weeks of falling consumption
GamificationStores ==
    {EmptyBag, BaseShort, BaseWeek, BaseRising, BaseLong, BaseSaving}

InitGamification ==
    /\ store \in GamificationStores
    /\ anomalyStore = EmptyBag
    /\ now = Now0
    /\ ret = NoRet
    /\ runs = 0
    /\ added = 0
    /\ cache = EmptyDict
    /\ lastCacheUpdate = EmptyDict
    /\ thread = NoThreads
    /\ user = NewUser

\* the manual form submitted time and again; a form submitted while the
\* lock is held waits in add_energy_data
ManualEntries ==
    \E d \in Devices, c \in ManualCons, age \in ManualAges :
        added < MaxSubmits /\ ~user.locked /\ SubmitForm(d, c, age)

\* app.py gamification_page, "Claim Reward": complete_challenge calls
\* add_points within its "with self.db_manager.lock" block
ClaimReward ==
    \E reward_points \in ChallengeRewards :
        /\ ~user.locked
        /\ \E met \in {MetConditions(store, now)} :
                user' = add_points([user EXCEPT !.locked = TRUE], "challenge_completed",
                                   reward_points, "challenge", met)
        /\ ret' = NoRet
        /\ UNCHANGED <<store, anomalyStore, now, runs, added, cache, lastCacheUpdate, thread>>

NextGamification == ManualEntries \/ ClaimReward

SpecGamification == InitGamification /\ [][NextGamification]_vars

\* how often an id stands in the achievements list, and how often its
\* points were written to points_history
TimesEarned(id) == Cardinality({k \in DOMAIN user.achievements : user.achievements[k] = id})
TimesPaid(id) ==
    Cardinality({k \in DOMAIN user.points_history :
                    /\ user.points_history[k].activity_type = "achievement_unlocked"
                    /\ user.points_history[k].description = id})
AchievementIds == {achievements[i].id : i \in DOMAIN achievements}

\* C29: after any sequence of add_points calls every achievement id stands
\* at most once in the user's achievements list and its points were added
\* at most once, also when several conditions come true within one call,
\* and no add_points call is left waiting
C29_AchievementsAwardedOnce ==
    /\ \A id \in AchievementIds : TimesEarned(id) <= 1 /\ TimesPaid(id) <= 1
    /\ ~user.blocked

(***************************************************************************)
(* The ThingsBoard sync run again and again: the dashboard's button and    *)
(* the periodic loop of start_periodic_sync.                               *)
(***************************************************************************)
\* how old the fetched entries are, in minutes: within the last hour, at
\* its edge, and in the second hour of the window get_latest_telemetry_data
\* asks for (hours_back=2)
SyncAges == {30, 58, 90}
interval_minutes == 5       \* start_periodic_sync's default
FetchWindow == 120          \* hours_back=2 of perform_sync, in minutes

\* the entries get_latest_telemetry_data makes of the telemetry: a value
\* under the key 'consumption', and one under 'power' divided by 1000
FetchedEntries(t) ==
    {Reading(d, 100, t - age, "thingsboard") : d \in Devices, age \in SyncAges}
FetchedBatches(t) ==
    {<<e>> : e \in FetchedEntries(t)}
        \cup {<<p[1], p[2]>> :
                 p \in {q \in FetchedEntries(t) \X FetchedEntries(t) : q[2].ts < q[1].ts}}
        \cup {<<e, [e EXCEPT !.consumption = 1]>> :
                 e \in {f \in FetchedEntries(t) : f.device = "d1"}}

IsSync == ret.op = "perform_sync" /\ ret.success

\* the batch of the last sync, while the window still covers its entries
SameBatch ==
    IF IsSync /\ \A k \in DOMAIN ret.data : ret.data[k].ts >= now - FetchWindow
    THEN {ret.data} ELSE {}

InitSync ==
    /\ store \in {EmptyBag, BaseSix}
    /\ anomalyStore = EmptyBag
    /\ now = Now0
    /\ ret = NoRet
    /\ runs = 0
    /\ added = 0
    /\ cache = EmptyDict
    /\ lastCacheUpdate = EmptyDict
    /\ thread = NoThreads
    /\ user = NewUser

\* perform_sync on what ThingsBoard returns, and the time until the next
\* sync: none when the button is clicked again, the loop's sleep otherwise
PerformSync ==
    \E connected \in BOOLEAN, telemetry_data \in FetchedBatches(now) \cup SameBatch,
       elapsed \in {0, interval_minutes} :
        LET result == perform_sync(store, connected, telemetry_data, now)
        IN  /\ runs < MaxSyncs
            /\ store' = result.store
            /\ clear_cache
            /\ ret' = [op |-> "perform_sync", success |-> result.success,
                       synced_count |-> result.synced_count, data |-> telemetry_data]
            /\ runs' = runs + 1
            /\ now' = now + elapsed
            /\ UNCHANGED <<anomalyStore, added, thread, user>>

NextSync == PerformSync

SpecSync == InitSync /\ [][NextSync]_vars

\* no two thingsboard readings of one device less than 60 s apart
NoCloseReadings(st) ==
    \A r \in DOMAIN st :
        r.source = "thingsboard" =>
            /\ st[r] = 1
            /\ \A q \in DOMAIN st :
                   (q # r /\ q.source = "thingsboard" /\ q.device = r.device)
                       => (q.ts - r.ts >= 1 \/ r.ts - q.ts >= 1)

\* C30: a second sync of the batch the last sync stored inserts no reading
\* and reports a synced count of 0, and no sync leaves two thingsboard
\* readings of one device less than 60 s apart in the store
C30_SyncIdempotent ==
    [][(runs' = runs + 1 /\ ret'.success) =>
            /\ NoCloseReadings(store) => NoCloseReadings(store')
            /\ (IsSync /\ ret'.data = ret.data)
                   => (store' = store /\ ret'.synced_count = 0)]_vars

====
